---- MODULE Spec2Model ----
(***************************************************************************)
(* A model of the content-stream compiler of SkPDFDevice.cpp: the State    *)
(* Diff Emitter (GraphicStackState), the entry chain (ContentEntry), the   *)
(* compositing emulation of setUpContentEntry / finishContentEntry and the *)
(* four resource tables.                                                   *)
(*                                                                         *)
(* Geometry, colours, fonts and images are abstract values: a transform is *)
(* a name ("I" is the identity), a clip chain is a sequence of clip steps, *)
(* an output instruction is a token [op, n, x].                            *)
(***************************************************************************)
EXTENDS Integers, Sequences, FiniteSets, TLC

VARIABLES
    dev,        \* the SkPDFDevice: entry chain, tail pointer, resource tables
    gsState,    \* the GraphicStackState of the running content() / emitter
    pc,         \* device: "record" | "content" | "done" | "hang";
                \* free-standing emitter: "emit" | "drained"
    walk,       \* content(): the entry the loop is at (0 is NULL) and the
                \* entries whose buffers it has copied, in order
    nCalls,     \* number of public calls made so far
    last        \* what the last call was given and what it returned

vars == <<dev, gsState, pc, walk, nCalls, last>>

----------------------------------------------------------------------------
(* Bounds of the exploration *)

\* number of public draw calls issued on the device
MaxDraws == 2
\* number of calls made on a free-standing emitter
MaxOps == 2
\* number of objects offered to the resource tables of a device
MaxOffers == 4

----------------------------------------------------------------------------
(* Values *)

NULL == 0

kMaxStackDepth == 12

\* SkPaint::Style
kFill_Style == 0
kStroke_Style == 1
kStrokeAndFill_Style == 2

\* An output instruction.  n is a number (-1 when unused), x a name.
Tok(op, n, x) == [op |-> op, n |-> n, x |-> x]

\* SkColor: an alpha and the colour channels.
Color(a, rgb) == [a |-> a, rgb |-> rgb]
SK_ColorBLACK == Color(255, "black")
SkColorSetA(c, a) == [c EXCEPT !.a = a]
SkColorGetA(c) == c.a

\* Clip steps (SkClipStack::B2FIter::Clip): a rect or a path, a combine op,
\* and for a path whether its fill type is inverse.
ClipStep(name, shape, op, inverse) ==
    [name |-> name, shape |-> shape, op |-> op, inverse |-> inverse]
StepA == ClipStep("A", "rect", "intersect", FALSE)
StepB == ClipStep("B", "rect", "intersect", FALSE)
StepC == ClipStep("C", "path", "intersect", FALSE)
StepD == ClipStep("D", "rect", "difference", FALSE)
StepP == ClipStep("P", "path", "intersect", TRUE)

\* SkRegion: the resolved region of a clip chain, or the empty region.
EmptyRegion == [empty |-> TRUE, of |-> <<>>]
RegionOf(chain) == [empty |-> FALSE, of |-> chain]
\* the step clipDevPath(boundary of region, kReplace_Op) adds
ReplaceStep(region) == ClipStep("boundary", "path", "replace", FALSE)

----------------------------------------------------------------------------
(* GraphicStateEntry *)

NoFont == "none"
SK_ScalarNaN == -1

\* GraphicStateEntry::GraphicStateEntry()
GraphicStateEntry ==
    [fMatrix |-> "I",
     fClipStack |-> <<>>,
     fClipRegion |-> EmptyRegion,
     fColor |-> SK_ColorBLACK,
     fTextScaleX |-> 1,
     fTextFill |-> kFill_Style,
     fShaderIndex |-> -1,
     fGraphicStateIndex |-> -1,
     fFont |-> NoFont,
     fTextSize |-> SK_ScalarNaN]

\* a faulty compareInitialState: the pattern index of one state is compared
\* with the extended-state index of the other
compareInitialState_mixedIndex(a, b) ==
    /\ a.fColor = b.fColor
    /\ a.fShaderIndex = b.fGraphicStateIndex
    /\ a.fMatrix = b.fMatrix
    /\ a.fClipStack = b.fClipStack
    /\ \/ a.fTextScaleX = 0
       \/ b.fTextScaleX = 0
       \/ (a.fTextScaleX = b.fTextScaleX /\ a.fTextFill = b.fTextFill)

\* a faulty compareInitialState: the text scales and fill modes are compared
\* also when one of the scales is zero
compareInitialState_textAlways(a, b) ==
    /\ a.fColor = b.fColor
    /\ a.fShaderIndex = b.fShaderIndex
    /\ a.fGraphicStateIndex = b.fGraphicStateIndex
    /\ a.fMatrix = b.fMatrix
    /\ a.fClipStack = b.fClipStack
    /\ a.fTextScaleX = b.fTextScaleX /\ a.fTextFill = b.fTextFill

\* GraphicStateEntry::compareInitialState
compareInitialState(a, b) ==
    /\ a.fColor = b.fColor
    /\ a.fShaderIndex = b.fShaderIndex
    /\ a.fGraphicStateIndex = b.fGraphicStateIndex
    /\ a.fMatrix = b.fMatrix
    /\ a.fClipStack = b.fClipStack
    /\ \/ a.fTextScaleX = 0
       \/ b.fTextScaleX = 0
       \/ (a.fTextScaleX = b.fTextScaleX /\ a.fTextFill = b.fTextFill)

----------------------------------------------------------------------------
(* GraphicStackState: the State Diff Emitter.  An emitter g is a record     *)
(* [fStackDepth, fEntries, out, failed]: out is fContentStream, failed the  *)
(* set of SkASSERTs that did not hold (a release build runs on).           *)

\* GraphicStackState::GraphicStackState
NewGraphicStackState(existingClipStack, existingClipRegion, contentStream) ==
    [fStackDepth |-> 0,
     fEntries |-> [i \in 0..kMaxStackDepth |->
                     IF i = 0
                     THEN [GraphicStateEntry EXCEPT
                             !.fClipStack = existingClipStack,
                             !.fClipRegion = existingClipRegion]
                     ELSE GraphicStateEntry],
     out |-> contentStream,
     failed |-> {}]

currentEntry(g) == g.fEntries[g.fStackDepth]

writeText(g, toks) == [g EXCEPT !.out = g.out \o toks]

\* GraphicStackState::push
push(g) ==
    IF g.fStackDepth < kMaxStackDepth
    THEN [g EXCEPT !.out = g.out \o <<Tok("q", -1, "")>>,
                   !.fStackDepth = g.fStackDepth + 1,
                   !.fEntries[g.fStackDepth + 1] = g.fEntries[g.fStackDepth]]
    ELSE [g EXCEPT !.failed = g.failed \cup {"push: fStackDepth < kMaxStackDepth"}]

\* a faulty pop: the frame is dropped but no restore is written
pop_silent(g) ==
    [g EXCEPT !.fStackDepth = g.fStackDepth - 1]

\* GraphicStackState::pop
pop(g) ==
    IF g.fStackDepth > 0
    THEN [g EXCEPT !.out = g.out \o <<Tok("Q", -1, "")>>,
                   !.fStackDepth = g.fStackDepth - 1]
    ELSE [g EXCEPT !.failed = g.failed \cup {"pop: fStackDepth > 0"}]

\* GraphicStackState::drainStack
RECURSIVE drainStack(_)
drainStack(g) ==
    IF g.fStackDepth # 0 THEN drainStack(pop(g)) ELSE g

\* a faulty skip_clip_stack_prefix: nothing is skipped
skip_nothing(prefix, stack) == stack

\* skip_clip_stack_prefix: the steps of stack the iterator is left at, after
\* one step of stack was consumed for every step of prefix.
skip_clip_stack_prefix(prefix, stack) ==
    SubSeq(stack, Len(prefix) + 1, Len(stack))

\* the two SkASSERTs of skip_clip_stack_prefix
IsClipStackPrefix(prefix, stack) ==
    /\ Len(prefix) <= Len(stack)
    /\ SubSeq(stack, 1, Len(prefix)) = prefix

\* emit_clip on a rect or on a path
emit_clip(clipEntry) ==
    IF clipEntry.shape = "path"
    THEN Tok("W-path", -1, clipEntry.name)
    ELSE Tok("W-rect", -1, clipEntry.name)

\* emit_clip on the boundary path of the resolved region
emit_region_clip(clipRegion) == Tok("W-region", -1, "boundary")

\* a faulty needRegion loop: the fill type of a path is not looked at
needRegion_opOnly(steps) ==
    \E i \in 1..Len(steps) : steps[i].op # "intersect"

\* the needRegion loop of updateClip
needRegion(steps) ==
    \E i \in 1..Len(steps) :
        \/ steps[i].op # "intersect"
        \/ (steps[i].shape = "path" /\ steps[i].inverse)

\* a faulty updateClip without the while loop: the new clip is saved on top
\* of whatever frame is current
popUntilMatch_noPop(g, clipStack) == [g |-> g, found |-> FALSE]

\* a faulty while loop: the chain of the frame a pop uncovers is not looked at
RECURSIVE popUntilMatch_unmatched(_, _)
popUntilMatch_unmatched(g, clipStack) ==
    IF g.fStackDepth > 0
    THEN popUntilMatch_unmatched(pop(g), clipStack)
    ELSE [g |-> g, found |-> FALSE]

\* the while loop of updateClip: pop until the chain matches or depth is 0
RECURSIVE popUntilMatch(_, _)
popUntilMatch(g, clipStack) ==
    IF g.fStackDepth > 0
    THEN LET g1 == pop(g) IN
         IF clipStack = currentEntry(g1).fClipStack
         THEN [g |-> g1, found |-> TRUE]
         ELSE popUntilMatch(g1, clipStack)
    ELSE [g |-> g, found |-> FALSE]

\* the instructions updateClip writes once it has pushed
clipInstructions(inherited, clipStack, clipRegion) ==
    LET suffix == skip_clip_stack_prefix(inherited, clipStack) IN
    IF needRegion(suffix)
    THEN <<emit_region_clip(clipRegion)>>
    ELSE [i \in 1..Len(suffix) |-> emit_clip(suffix[i])]

\* updateClip lines 285-334, g being the emitter after push(): the clip is
\* written and remembered in the frame on top
writeClip(g, clipStack, clipRegion) ==
    [g EXCEPT !.failed = IF IsClipStackPrefix(g.fEntries[0].fClipStack, clipStack)
                         THEN @ ELSE @ \cup {"skip_clip_stack_prefix"},
              !.out = @ \o clipInstructions(g.fEntries[0].fClipStack,
                                            clipStack, clipRegion),
              !.fEntries[g.fStackDepth].fClipStack = clipStack,
              !.fEntries[g.fStackDepth].fClipRegion = clipRegion]

\* a faulty updateClip: the clip is written without a save, into the frame
\* the pops ended at
clipAfterPops_noPush(popped, clipStack, clipRegion) ==
    IF popped.found
    THEN popped.g
    ELSE writeClip(popped.g, clipStack, clipRegion)

\* updateClip lines 284-334, `popped` being the outcome of the while loop
clipAfterPops(popped, clipStack, clipRegion) ==
    IF popped.found
    THEN popped.g
    ELSE writeClip(push(popped.g), clipStack, clipRegion)

\* GraphicStackState::updateClip
updateClip(g, clipStack, clipRegion) ==
    IF clipStack = currentEntry(g).fClipStack
    THEN g
    ELSE clipAfterPops(popUntilMatch(g, clipStack), clipStack, clipRegion)

\* a faulty updateMatrix: the frame of the old transform is not popped
updateMatrix_stacked(g, matrix) ==
    IF matrix = currentEntry(g).fMatrix
    THEN g
    ELSE IF matrix = "I"
         THEN g
         ELSE [writeText(push(g), <<Tok("cm", -1, matrix)>>)
                 EXCEPT !.fEntries[g.fStackDepth + 1].fMatrix = matrix]

\* GraphicStackState::updateMatrix
updateMatrix(g, matrix) ==
    IF matrix = currentEntry(g).fMatrix
    THEN g
    ELSE LET g1 ==
               IF currentEntry(g).fMatrix # "I"
               THEN LET a1 == IF g.fStackDepth > 0 THEN {}
                              ELSE {"updateMatrix: fStackDepth > 0"}
                        a2 == IF g.fStackDepth > 0 /\
                                 g.fEntries[g.fStackDepth].fClipStack #
                                 g.fEntries[g.fStackDepth - 1].fClipStack
                              THEN {"updateMatrix: same clip below"} ELSE {}
                        p == pop(g)
                        a3 == IF currentEntry(p).fMatrix # "I"
                              THEN {"updateMatrix: identity below"} ELSE {}
                    IN [p EXCEPT !.failed = p.failed \cup a1 \cup a2 \cup a3]
               ELSE g
         IN IF matrix = "I"
            THEN g1
            ELSE LET g2 == writeText(push(g1), <<Tok("cm", -1, matrix)>>)
                 IN [g2 EXCEPT !.fEntries[g2.fStackDepth].fMatrix = matrix]

\* updateDrawingState: the fill source (pattern or flat colour)
updateFillSource(g, state) ==
    IF state.fShaderIndex >= 0
    THEN IF state.fShaderIndex # currentEntry(g).fShaderIndex
         THEN [writeText(g, <<Tok("scn", state.fShaderIndex, "")>>)
                 EXCEPT !.fEntries[g.fStackDepth].fShaderIndex = state.fShaderIndex]
         ELSE g
    ELSE IF state.fColor # currentEntry(g).fColor \/
            currentEntry(g).fShaderIndex >= 0
         THEN [writeText(g, <<Tok("rg", -1, state.fColor.rgb)>>)
                 EXCEPT !.fEntries[g.fStackDepth].fColor = state.fColor,
                        !.fEntries[g.fStackDepth].fShaderIndex = -1,
                        !.failed = IF SkColorGetA(state.fColor) = 255 THEN @
                                   ELSE @ \cup {"emit_pdf_color: opaque"}]
         ELSE g

\* a faulty extended-state update: the index written is not remembered
updateExtGState_forgetful(g, state) ==
    IF state.fGraphicStateIndex # currentEntry(g).fGraphicStateIndex
    THEN writeText(g, <<Tok("gs", state.fGraphicStateIndex, "")>>)
    ELSE g

\* updateDrawingState: the extended graphic state
updateExtGState(g, state) ==
    IF state.fGraphicStateIndex # currentEntry(g).fGraphicStateIndex
    THEN [writeText(g, <<Tok("gs", state.fGraphicStateIndex, "")>>)
            EXCEPT !.fEntries[g.fStackDepth].fGraphicStateIndex =
                       state.fGraphicStateIndex]
    ELSE g

\* updateDrawingState: text horizontal scale and text fill mode
updateTextState(g, state) ==
    IF state.fTextScaleX # 0
    THEN LET g1 == IF state.fTextScaleX # currentEntry(g).fTextScaleX
                   THEN [writeText(g, <<Tok("Tz", state.fTextScaleX, "")>>)
                           EXCEPT !.fEntries[g.fStackDepth].fTextScaleX =
                                      state.fTextScaleX]
                   ELSE g
         IN IF state.fTextFill # currentEntry(g1).fTextFill
            THEN [writeText(g1, <<Tok("Tr", state.fTextFill, "")>>)
                    EXCEPT !.fEntries[g1.fStackDepth].fTextFill = state.fTextFill]
            ELSE g1
    ELSE g

\* a faulty updateDrawingState: the extended state goes before the fill
\* source
updateDrawingState_gsFirst(g, state) ==
    updateTextState(updateFillSource(updateExtGState(g, state), state), state)

\* GraphicStackState::updateDrawingState
updateDrawingState(g, state) ==
    updateTextState(updateExtGState(updateFillSource(g, state), state), state)

----------------------------------------------------------------------------
(* SkPDFDevice.  A device d is a record: entries is the heap of            *)
(* ContentEntry objects (an entry is named by its index, NULL is 0),       *)
(* fContentEntries the head pointer, fLastContentEntry the tail pointer,   *)
(* then the four resource tables.  nObj counts the objects created with    *)
(* new (it names them), call numbers the public call that is running (it   *)
(* marks the instructions the call writes), failed holds the SkASSERTs     *)
(* that did not hold and status is "ok", "hang" (a content() walk that      *)
(* never ends) or "ub" (a ContentEntry deleted while still linked).        *)

\* the device of SkPDFDevice(pageSize, contentSize, initialTransform)
fExistingClipStack == <<StepA>>
fExistingClipRegion == RegionOf(fExistingClipStack)
fInitialTransform == "flip"

NoDict == [valid |-> FALSE, G |-> 0, X |-> 0, F |-> 0, P |-> 0]

\* SkPDFDevice::SkPDFDevice followed by init()
NewDevice ==
    [entries |-> <<>>,
     fContentEntries |-> NULL,
     fLastContentEntry |-> NULL,
     fGraphicStateResources |-> <<>>,
     fXObjectResources |-> <<>>,
     fFontResources |-> <<>>,
     fShaderResources |-> <<>>,
     fResourceDict |-> NoDict,
     nObj |-> 0,
     call |-> 0,
     failed |-> {},
     status |-> "ok"]

\* struct ContentEntry
ContentEntry == [fState |-> GraphicStateEntry, fContent |-> <<>>, fNext |-> NULL]

\* SkTDArray::find: the index of the first element equal to obj, or -1
find(table, obj) ==
    IF \E i \in 1..Len(table) : table[i] = obj
    THEN (CHOOSE i \in 1..Len(table) :
             table[i] = obj /\ \A j \in 1..(i - 1) : table[j] # obj) - 1
    ELSE -1

\* Objects held in the tables.  All objects of a table are records of one
\* shape; id names an object made with new, 0 is a canonical object.
GSObject(kind, alpha, id, mask, invert) ==
    [kind |-> kind, alpha |-> alpha, id |-> id, mask |-> mask, invert |-> invert]
XObject(kind, id, name, content, res) ==
    [kind |-> kind, id |-> id, name |-> name, content |-> content, res |-> res]
NoResources == [G |-> <<>>, X |-> <<>>, F |-> <<>>, P |-> <<>>]
NoXObject == XObject("none", 0, "", <<>>, NoResources)

\* SkPDFGraphicState::getGraphicStateForPaint: canonical per paint alpha
\* (every Porter-Duff mode maps to the Normal blend mode).
getGraphicStateForPaint(paint) ==
    GSObject("paint", SkColorGetA(paint.color), 0, NoXObject, FALSE)
\* SkPDFGraphicState::getSMaskGraphicState: a new object per call
getSMaskGraphicState(id, sMask, invert) ==
    GSObject("smask", 255, id, sMask, invert)
\* SkPDFGraphicState::getNoSMaskGraphicState: one canonical object
getNoSMaskGraphicState == GSObject("nosmask", 255, 0, NoXObject, FALSE)

\* SkPDFShader::getPDFShader: canonical per shader, total transform and
\* clip bounds; NULL (NoShaderObject) for a shader that is no pattern.
ShaderObject(name, matrix, bounds) ==
    [name |-> name, matrix |-> matrix, bounds |-> bounds]
NoShaderObject == ShaderObject("", "", EmptyRegion)
getPDFShader(shader, matrix, clipRegion) ==
    IF shader.kind = "pattern"
    THEN ShaderObject(shader.name, matrix, clipRegion)
    ELSE NoShaderObject

\* SkPDFFont::getFontResource: canonical per typeface
getFontResource(typeface) == typeface

\* SkPDFImage::CreateImage: the image of a bitmap, NoXObject on failure
CreateImage(bitmap) ==
    IF bitmap.ok THEN XObject("image", 0, bitmap.name, <<>>, NoResources) ELSE NoXObject

\* SkPaint(): the stock paint
NoShader == [kind |-> "none", name |-> "", color |-> SK_ColorBLACK]
stockPaint ==
    [color |-> SK_ColorBLACK, shader |-> NoShader, xfermode |-> "SrcOver",
     textScaleX |-> 1, style |-> kFill_Style, typeface |-> "default",
     textSize |-> 12, pathEffect |-> FALSE, underline |-> FALSE]

\* a faulty addGraphicStateResource: the table is not searched
addGraphicStateResource_noFind(d, gs) ==
    [d |-> [d EXCEPT !.fGraphicStateResources = Append(@, gs)],
     index |-> Len(d.fGraphicStateResources)]

\* SkPDFDevice::addGraphicStateResource
addGraphicStateResource(d, gs) ==
    LET result == find(d.fGraphicStateResources, gs) IN
    IF result < 0
    THEN [d |-> [d EXCEPT !.fGraphicStateResources = Append(@, gs)],
          index |-> Len(d.fGraphicStateResources)]
    ELSE [d |-> d, index |-> result]

\* the pattern lookup of populateGraphicStateEntryFromPaint
addShaderResource(d, pdfShader) ==
    LET resourceIndex == find(d.fShaderResources, pdfShader) IN
    IF resourceIndex < 0
    THEN [d |-> [d EXCEPT !.fShaderResources = Append(@, pdfShader)],
          index |-> Len(d.fShaderResources)]
    ELSE [d |-> d, index |-> resourceIndex]

\* getFontResourceIndex once it holds the font object
addFontResource(d, newFont) ==
    LET resourceIndex == find(d.fFontResources, newFont) IN
    IF resourceIndex < 0
    THEN [d |-> [d EXCEPT !.fFontResources = Append(@, newFont)],
          index |-> Len(d.fFontResources)]
    ELSE [d |-> d, index |-> resourceIndex]

\* SkPDFDevice::getFontResourceIndex
getFontResourceIndex(d, typeface) ==
    addFontResource(d, getFontResource(typeface))

\* fXObjectResources.push(obj): the index written is count() - 1 after it
pushXObjectResource(d, obj) ==
    [d |-> [d EXCEPT !.fXObjectResources = Append(@, obj)],
     index |-> Len(d.fXObjectResources)]

\* populateGraphicStateEntryFromPaint line 1313: the SkASSERT on the paint
assertNoPathEffect(d, paint) ==
    IF paint.pathEffect
    THEN [d EXCEPT !.failed = @ \cup {"populate: paint.getPathEffect() == NULL"}]
    ELSE d

\* SkPDFDevice::populateGraphicStateEntryFromPaint: the new device and the
\* entry state written over `entry`
populateGraphicStateEntryFromPaint(d, matrix, clipStack, clipRegion, paint, hasText, entry) ==
    LET shader == paint.shader
        pdfShader == IF shader.kind = "none" THEN NoShaderObject
                     ELSE getPDFShader(shader, <<matrix, fInitialTransform>>,
                                       clipRegion)
        e1 == [entry EXCEPT !.fMatrix = matrix,
                            !.fClipStack = clipStack,
                            !.fClipRegion = clipRegion]
        \* lines 1340-1355: no pattern object; a colour shader gives a colour
        e2 == IF shader.kind # "none" /\ pdfShader = NoShaderObject
              THEN [e1 EXCEPT !.fColor =
                       IF shader.kind = "color"
                       THEN SkColorSetA(shader.color, 255)
                       ELSE Color(0, "black")]
              ELSE e1
        color2 == IF shader.kind # "none" /\ pdfShader = NoShaderObject
                  THEN IF shader.kind = "color" THEN shader.color
                       ELSE Color(0, "black")
                  ELSE paint.color
        \* lines 1358-1372
        sh == IF pdfShader # NoShaderObject
              THEN addShaderResource(d, pdfShader)
              ELSE [d |-> d, index |-> -1]
        e3 == IF pdfShader # NoShaderObject
              THEN [e2 EXCEPT !.fShaderIndex = sh.index]
              ELSE [e2 EXCEPT !.fShaderIndex = -1,
                              !.fColor = SkColorSetA(paint.color, 255)]
        color3 == IF pdfShader # NoShaderObject THEN color2 ELSE paint.color
        \* lines 1374-1384
        newGraphicState ==
            IF color3 = paint.color
            THEN getGraphicStateForPaint(paint)
            ELSE getGraphicStateForPaint([paint EXCEPT !.color = color3])
        gr == addGraphicStateResource(sh.d, newGraphicState)
        e4 == [e3 EXCEPT !.fGraphicStateIndex = gr.index]
        \* lines 1386-1391
        e5 == IF hasText
              THEN [e4 EXCEPT !.fTextScaleX = paint.textScaleX,
                              !.fTextFill = paint.style]
              ELSE [e4 EXCEPT !.fTextScaleX = 0]
    IN [d |-> assertNoPathEffect(gr.d, paint), state |-> e5]

----------------------------------------------------------------------------
(* content(), form objects, init / cleanUp *)

\* the body of the loop of content(): one entry diffed and copied
contentEntryStep(g, entry) ==
    writeText(
        updateDrawingState(
            updateMatrix(
                updateClip(g, entry.fState.fClipStack, entry.fState.fClipRegion),
                entry.fState.fMatrix),
            entry.fState),
        entry.fContent)

\* content() up to the loop: the initial transform, then a new emitter
contentBegin(d) ==
    NewGraphicStackState(fExistingClipStack, fExistingClipRegion,
        IF fInitialTransform # "I"
        THEN <<Tok("cm", -1, fInitialTransform)>> ELSE <<>>)

\* the loop of content() from `entry` on.  The loop has visited more entries
\* than the heap holds exactly when the chain is cyclic: it never ends.
RECURSIVE contentLoop(_, _, _, _)
contentLoop(d, g, entry, visited) ==
    IF entry = NULL
    THEN [g |-> g, hang |-> FALSE]
    ELSE IF visited >= Len(d.entries)
         THEN [g |-> g, hang |-> TRUE]
         ELSE contentLoop(d, contentEntryStep(g, d.entries[entry]),
                          d.entries[entry].fNext, visited + 1)

\* content() lines 1076-1080, `looped` being the outcome of the loop
contentStream(looped) ==
    [stream |-> drainStack(looped.g).out, hang |-> looped.hang,
     failed |-> looped.g.failed]

\* SkPDFDevice::content
content(d) ==
    contentStream(contentLoop(d, contentBegin(d), d.fContentEntries, 0))

\* SkPDFDevice::getResourceDict: the dictionary is built on the first call
\* (one name per index of each table) and cached
getResourceDict(d) ==
    IF d.fResourceDict = NoDict
    THEN [d EXCEPT !.fResourceDict =
             [valid |-> TRUE,
              G |-> Len(d.fGraphicStateResources),
              X |-> Len(d.fXObjectResources),
              F |-> Len(d.fFontResources),
              P |-> Len(d.fShaderResources)]]
    ELSE d

\* a faulty cleanUp: the font table is kept
cleanUp_keepsFonts(d) ==
    [d EXCEPT !.fGraphicStateResources = <<>>,
              !.fXObjectResources = <<>>,
              !.fShaderResources = <<>>]

\* SkPDFDevice::cleanUp
cleanUp(d) ==
    [d EXCEPT !.fGraphicStateResources = <<>>,
              !.fXObjectResources = <<>>,
              !.fFontResources = <<>>,
              !.fShaderResources = <<>>]

\* whether following fNext from the head comes back to an entry
RECURSIVE chainEnds(_, _, _)
chainEnds(d, entry, visited) ==
    IF entry = NULL THEN TRUE
    ELSE IF visited >= Len(d.entries) THEN FALSE
         ELSE chainEnds(d, d.entries[entry].fNext, visited + 1)

\* a faulty init: the dictionary is dropped but the chain is kept
init_keepsChain(d) == [d EXCEPT !.fResourceDict = NoDict]

\* SkPDFDevice::init.  fContentEntries.reset() deletes the chain entry by
\* entry; on a cyclic chain it deletes an entry twice.
init(d) ==
    [d EXCEPT !.fResourceDict = NoDict,
              !.entries = <<>>,
              !.fContentEntries = NULL,
              !.fLastContentEntry = NULL,
              !.status = IF chainEnds(d, d.fContentEntries, 0) THEN @ ELSE "ub"]

\* a faulty isContentEmpty: the device is never found empty
isContentEmpty_never(d) == FALSE

\* SkPDFDevice::isContentEmpty
isContentEmpty(d) ==
    \/ d.fContentEntries = NULL
    \/ Len(d.entries[d.fContentEntries].fContent) = 0

\* the SkASSERT of isContentEmpty
isContentEmptyAssert(d) ==
    IF /\ isContentEmpty(d)
       /\ d.fContentEntries # NULL
       /\ d.entries[d.fContentEntries].fNext # NULL
    THEN [d EXCEPT !.failed = @ \cup {"isContentEmpty: empty head has no successor"}]
    ELSE d

\* SkPDFFormXObject::SkPDFFormXObject(device): the device's resources and
\* its content stream, `walked` being what its call of content() returns
SkPDFFormXObject(d, id, walked) ==
    XObject("form", id, "", walked.stream,
            [G |-> d.fGraphicStateResources, X |-> d.fXObjectResources,
             F |-> d.fFontResources, P |-> d.fShaderResources])

\* createFormXObjectFromDevice, `walked` being what content() returns to the
\* constructor of the form object
formXObjectFromContent(d, walked) ==
    IF walked.hang
    THEN [d |-> [d EXCEPT !.status = "hang"], xobject |-> NoXObject]
    ELSE [d |-> [init(cleanUp(d)) EXCEPT
                   !.nObj = d.nObj + 1,
                   !.failed = d.failed \cup walked.failed],
          xobject |-> SkPDFFormXObject(d, d.nObj + 1, walked)]

\* SkPDFDevice::createFormXObjectFromDevice: the reset device and the object
createFormXObjectFromDevice(d) ==
    formXObjectFromContent(d, content(d))

\* writing toks to the fContent of an entry
writeContent(d, entry, toks) ==
    [d EXCEPT !.entries[entry].fContent = @ \o toks]

\* SkPDFUtils::ApplyGraphicState / DrawFormXObject
ApplyGraphicState(index) == Tok("gs", index, "")
DrawFormXObject(index) == Tok("Do", index, "")

----------------------------------------------------------------------------
(* setUpContentEntry / finishContentEntry and the compositing emulation *)

\* SkXfermode::Mode
Modes == {"Clear", "Src", "Dst", "SrcOver", "DstOver", "SrcIn", "DstIn",
          "SrcOut", "DstOut", "SrcATop", "DstATop", "Xor", "Plus"}
SoftMaskModes == {"SrcIn", "DstIn", "SrcOut", "DstOut"}

\* a NULL SkClipStack pointer (SkDraw::fClipStack is optional)
NullClipStack == <<ClipStep("NULL", "none", "none", FALSE)>>

\* setUpContentEntry lines 1157-1171: the clip stack used
resolveClipStack(clipStack, clipRegion) ==
    IF clipStack = NullClipStack
    THEN IF clipRegion = fExistingClipRegion
         THEN fExistingClipStack
         ELSE Append(fExistingClipStack, ReplaceStep(clipRegion))
    ELSE clipStack

\* The result of setUpContentEntry: the device, the entry (or NULL), *dst,
\* and the state populateGraphicStateEntryFromPaint captured for the call
AcquiredAs(d, entry, dst, state) ==
    [d |-> d, entry |-> entry, dst |-> dst, state |-> state]
Acquired(d, entry, dst) == AcquiredAs(d, entry, dst, GraphicStateEntry)

\* SkTScopedPtr::reset on the fNext of entry `at`: the object it held is
\* deleted when it is another one; deleting a linked entry is undefined.
resetNext(d, at, to) ==
    [d EXCEPT !.entries[at].fNext = to,
              !.status = IF d.entries[at].fNext # NULL /\ d.entries[at].fNext # to
                         THEN "ub" ELSE @]

\* a faulty link: an empty tail is not reused, a new entry is always
\* allocated and linked
linkPopulated_alwaysNew(d, populated, xfermode, dst) ==
    LET tail == d.fLastContentEntry
        entry == Len(d.entries) + 1
        d2 == [populated.d EXCEPT !.entries = Append(@,
                   [ContentEntry EXCEPT !.fState = populated.state])]
    IN IF tail = NULL
       THEN AcquiredAs([d2 EXCEPT !.fContentEntries = entry,
                                  !.fLastContentEntry = entry],
                       entry, dst, populated.state)
       ELSE IF xfermode = "DstOver"
            THEN AcquiredAs([resetNext(d2, entry, d2.fContentEntries)
                               EXCEPT !.fContentEntries = entry],
                            entry, dst, populated.state)
            ELSE AcquiredAs([resetNext(d2, tail, entry)
                               EXCEPT !.fLastContentEntry = entry],
                            entry, dst, populated.state)

\* a faulty link: a destination-over entry becomes the tail as well as the
\* head
linkPopulated_tailMoved(d, populated, xfermode, dst) ==
    LET tail == d.fLastContentEntry
        reuse == tail # NULL /\ Len(d.entries[tail].fContent) = 0
        entry == IF reuse THEN tail ELSE Len(d.entries) + 1
        d1 == IF reuse
              THEN [populated.d EXCEPT !.entries[tail].fState = populated.state]
              ELSE populated.d
        d2 == IF reuse THEN d1
              ELSE [d1 EXCEPT !.entries = Append(@,
                       [ContentEntry EXCEPT !.fState = populated.state])]
    IN IF /\ tail # NULL
          /\ xfermode # "DstOver"
          /\ compareInitialState(populated.state, d1.entries[tail].fState)
       THEN AcquiredAs(d1, tail, dst, populated.state)
       ELSE IF tail = NULL
            THEN AcquiredAs([d2 EXCEPT !.fContentEntries = entry,
                                       !.fLastContentEntry = entry],
                            entry, dst, populated.state)
            ELSE IF xfermode = "DstOver"
                 THEN AcquiredAs(
                        [resetNext(d2, entry, d2.fContentEntries)
                           EXCEPT !.fContentEntries = entry,
                                  !.fLastContentEntry = entry],
                        entry, dst, populated.state)
                 ELSE AcquiredAs(
                        [resetNext(d2, tail, entry)
                           EXCEPT !.fLastContentEntry = entry],
                        entry, dst, populated.state)

\* setUpContentEntry lines 1214-1231: the entry whose state was populated is
\* merged into the tail or linked into the chain
linkPopulated(d, populated, xfermode, dst) ==
    LET tail == d.fLastContentEntry
        reuse == tail # NULL /\ Len(d.entries[tail].fContent) = 0
        entry == IF reuse THEN tail ELSE Len(d.entries) + 1
        d1 == IF reuse
              THEN [populated.d EXCEPT !.entries[tail].fState = populated.state]
              ELSE populated.d
        d2 == IF reuse THEN d1
              ELSE [d1 EXCEPT !.entries = Append(@,
                       [ContentEntry EXCEPT !.fState = populated.state])]
    IN IF /\ tail # NULL
          /\ xfermode # "DstOver"
          /\ compareInitialState(populated.state, d1.entries[tail].fState)
       THEN AcquiredAs(d1, tail, dst, populated.state)
       ELSE IF tail = NULL
            THEN AcquiredAs([d2 EXCEPT !.fContentEntries = entry,
                                       !.fLastContentEntry = entry],
                            entry, dst, populated.state)
            ELSE IF xfermode = "DstOver"
                 THEN AcquiredAs(
                        [resetNext(d2, entry, d2.fContentEntries)
                           EXCEPT !.fContentEntries = entry],
                        entry, dst, populated.state)
                 ELSE AcquiredAs(
                        [resetNext(d2, tail, entry)
                           EXCEPT !.fLastContentEntry = entry],
                        entry, dst, populated.state)

\* setUpContentEntry lines 1203-1231: choose the entry (the tail when its
\* buffer is empty, a new one otherwise), populate its state, link it
linkContentEntry(d, clipStack, clipRegion, matrix, paint, hasText, dst) ==
    linkPopulated(d,
        populateGraphicStateEntryFromPaint(
            d, matrix, clipStack, clipRegion, paint, hasText,
            IF d.fLastContentEntry # NULL /\
               Len(d.entries[d.fLastContentEntry].fContent) = 0
            THEN d.entries[d.fLastContentEntry].fState
            ELSE GraphicStateEntry),
        paint.xfermode, dst)

\* a faulty test of the modes that draw no source: destination is left out
drawsNoSource_clearOnly(xfermode) == xfermode = "Clear"

\* a faulty test of the modes that draw no source: clear is left out
drawsNoSource_dstOnly(xfermode) == xfermode = "Dst"

\* setUpContentEntry lines 1197-1201: the modes that draw no source at all
drawsNoSource(xfermode) == xfermode \in {"Clear", "Dst"}

RECURSIVE setUpContentEntry(_, _, _, _, _, _)
RECURSIVE finishContentEntry(_, _, _)
RECURSIVE drawFormXObjectWithClip(_, _, _, _, _)
RECURSIVE clearClipFromContent(_, _, _)
RECURSIVE drawPaint(_, _, _, _, _)

\* a faulty prelude: a soft-mask mode leaves the content where it is and
\* isolates no destination
modePrelude_noFlush(d, clipStack, clipRegion, xfermode) ==
    IF xfermode \in {"Clear", "Src"}
    THEN [d |-> clearClipFromContent(d, clipStack, clipRegion),
          xobject |-> NoXObject, stop |-> FALSE]
    ELSE [d |-> d, xobject |-> NoXObject, stop |-> FALSE]

\* setUpContentEntry lines 1178-1193: what the blend mode asks for before an
\* entry is chosen.  stop: the call returns NULL at line 1189.
modePrelude(d, clipStack, clipRegion, xfermode) ==
    IF xfermode \in {"Clear", "Src"}
    THEN [d |-> clearClipFromContent(d, clipStack, clipRegion),
          xobject |-> NoXObject, stop |-> FALSE]
    ELSE IF xfermode \in SoftMaskModes
         THEN IF isContentEmpty(d)
              THEN [d |-> isContentEmptyAssert(d),
                    xobject |-> NoXObject, stop |-> TRUE]
              ELSE createFormXObjectFromDevice(d) @@ [stop |-> FALSE]
         ELSE [d |-> d, xobject |-> NoXObject, stop |-> FALSE]

\* setUpContentEntry lines 1197-1231, after the prelude `pre` of the mode
enterContentEntry(pre, clipStack, clipRegion, matrix, paint, hasText) ==
    IF pre.stop \/ pre.d.status # "ok" \/ drawsNoSource(paint.xfermode)
    THEN Acquired(pre.d, NULL, pre.xobject)
    ELSE linkContentEntry(pre.d, clipStack, clipRegion, matrix, paint,
                          hasText, pre.xobject)

\* setUpContentEntry lines 1156-1231: what it does for a clip region that is
\* not empty
setUpVisibleContentEntry(d, clipStack0, clipRegion, matrix, paint, hasText) ==
    enterContentEntry(
        modePrelude(d, resolveClipStack(clipStack0, clipRegion), clipRegion,
                    paint.xfermode),
        resolveClipStack(clipStack0, clipRegion), clipRegion, matrix, paint,
        hasText)

\* a faulty setUpContentEntry: the clip region is not tested
setUpContentEntry_unguarded(d, clipStack0, clipRegion, matrix, paint, hasText) ==
    IF d.status # "ok"
    THEN Acquired(d, NULL, NoXObject)
    ELSE setUpVisibleContentEntry(d, clipStack0, clipRegion, matrix, paint, hasText)

\* SkPDFDevice::setUpContentEntry.  A device that hangs or whose behaviour
\* is undefined takes no further call.
setUpContentEntry(d, clipStack0, clipRegion, matrix, paint, hasText) ==
    IF d.status # "ok" \/ clipRegion.empty
    THEN Acquired(d, NULL, NoXObject)
    ELSE setUpVisibleContentEntry(d, clipStack0, clipRegion, matrix, paint, hasText)

\* ~ContentEntryAccessor, run when the call that holds the accessor `acc`
\* returns with the device `recorded`
leaveContentEntry(acc, recorded, xfermode) ==
    IF acc.entry = NULL
    THEN recorded
    ELSE finishContentEntry(recorded, xfermode, acc.dst)

\* SkPDFDevice::internalDrawPaint
internalDrawPaint(d, paint, contentEntry) ==
    IF contentEntry = NULL
    THEN d
    ELSE writeContent(d, contentEntry, <<Tok("paint", d.call, "page")>>)

\* drawPaint from its ContentEntryAccessor `acc` on
drawPaintInto(acc, newPaint) ==
    leaveContentEntry(acc, internalDrawPaint(acc.d, newPaint, acc.entry),
                      newPaint.xfermode)

\* SkPDFDevice::drawPaint
drawPaint(d, clipStack, clipRegion, matrix, paint) ==
    drawPaintInto(
        setUpContentEntry(d, clipStack, clipRegion, matrix,
                          [paint EXCEPT !.style = kFill_Style], FALSE),
        [paint EXCEPT !.style = kFill_Style])

\* clearClipFromContent lines 1099-1100: the former content is redrawn
redrawCurContent(curContent, clipStack, clipRegion) ==
    drawFormXObjectWithClip(curContent.d, curContent.xobject, clipStack,
                            clipRegion, TRUE)

\* a faulty clearClipFromContent: the former content is left as it is
clearClipFromContent_skipped(d, clipStack, clipRegion) == d

\* SkPDFDevice::clearClipFromContent
clearClipFromContent(d, clipStack, clipRegion) ==
    IF clipRegion.empty
    THEN d
    ELSE IF isContentEmpty(d)
         THEN isContentEmptyAssert(d)
         ELSE redrawCurContent(createFormXObjectFromDevice(d), clipStack,
                               clipRegion)

\* a faulty masked draw: the soft mask is not reset after the object
writeMaskedFormXObject_noReset(acc, sMaskGS, xobject) ==
    IF acc.entry = NULL
    THEN acc.d
    ELSE LET g1 == addGraphicStateResource(acc.d, sMaskGS)
             x1 == pushXObjectResource(g1.d, xobject)
         IN writeContent(x1.d, acc.entry,
                         <<ApplyGraphicState(g1.index),
                           DrawFormXObject(x1.index)>>)

\* drawFormXObjectWithClip lines 1130-1143: the object is drawn into the
\* entry of the accessor `acc`, between the mask state and its reset
writeMaskedFormXObject(acc, sMaskGS, xobject) ==
    IF acc.entry = NULL
    THEN acc.d
    ELSE LET g1 == addGraphicStateResource(acc.d, sMaskGS)
             x1 == pushXObjectResource(g1.d, xobject)
             g2 == addGraphicStateResource(x1.d, getNoSMaskGraphicState)
         IN writeContent(g2.d, acc.entry,
                         <<ApplyGraphicState(g1.index),
                           DrawFormXObject(x1.index),
                           ApplyGraphicState(g2.index)>>)

\* a faulty first pass: the entry is asked for under a transform
drawFormXObjectWithMask_transformed(mask, xobject, invertClip) ==
    writeMaskedFormXObject(
        setUpContentEntry([mask.d EXCEPT !.nObj = @ + 1],
                          fExistingClipStack, fExistingClipRegion,
                          "M1", stockPaint, FALSE),
        getSMaskGraphicState(mask.d.nObj + 1, mask.xobject, invertClip),
        xobject)

\* drawFormXObjectWithClip lines 1122-1143, `mask` being the form object made
\* of the painted clip
drawFormXObjectWithMask(mask, xobject, invertClip) ==
    writeMaskedFormXObject(
        setUpContentEntry([mask.d EXCEPT !.nObj = @ + 1],
                          fExistingClipStack, fExistingClipRegion,
                          "I", stockPaint, FALSE),
        getSMaskGraphicState(mask.d.nObj + 1, mask.xobject, invertClip),
        xobject)

\* SkPDFDevice::drawFormXObjectWithClip
drawFormXObjectWithClip(d, xobject, clipStack, clipRegion, invertClip) ==
    IF d.status # "ok" \/ (clipRegion.empty /\ ~invertClip)
    THEN d
    ELSE drawFormXObjectWithMask(
             createFormXObjectFromDevice(
                 drawPaint(d, clipStack, clipRegion, "I", stockPaint)),
             xobject, invertClip)

\* finishContentEntry lines 1250-1253: the source drawn by the call is taken
\* out of the device
takeSrcFormXObject(d) ==
    IF ~isContentEmpty(d)
    THEN createFormXObjectFromDevice(d)
    ELSE [d |-> isContentEmptyAssert(d), xobject |-> NoXObject]

\* a faulty last pass: the source is drawn with no soft mask around it
writeInClipContent_unmasked(acc, src, xfermode, dst) ==
    IF acc.entry = NULL
    THEN acc.d
    ELSE writeContent(pushXObjectResource(acc.d, src).d, acc.entry,
                      <<DrawFormXObject(Len(acc.d.fXObjectResources))>>)

\* a faulty last pass: the source is drawn under a mask of the destination
\* in the destination modes too
writeInClipContent_sourceUnderMask(acc, src, xfermode, dst) ==
    IF acc.entry = NULL
    THEN acc.d
    ELSE
    LET sMaskGS == getSMaskGraphicState(acc.d.nObj + 1, dst,
                                        xfermode \in {"SrcOut", "DstOut"})
        d3 == pushXObjectResource([acc.d EXCEPT !.nObj = @ + 1], src).d
        g1 == addGraphicStateResource(d3, sMaskGS)
        g2 == addGraphicStateResource(g1.d, getNoSMaskGraphicState)
    IN writeContent(g2.d, acc.entry,
                    <<ApplyGraphicState(g1.index),
                      DrawFormXObject(Len(d3.fXObjectResources) - 1),
                      ApplyGraphicState(g2.index)>>)

\* finishContentEntry lines 1268-1294: source or destination is drawn into
\* the entry of the accessor `acc` with the other one as its mask
writeInClipContent(acc, src, xfermode, dst) ==
    IF acc.entry = NULL
    THEN acc.d
    ELSE
    LET srcModes == xfermode \in {"SrcIn", "SrcOut"}
        sMaskGS == IF srcModes
                   THEN getSMaskGraphicState(acc.d.nObj + 1, dst,
                                             xfermode = "SrcOut")
                   ELSE getSMaskGraphicState(acc.d.nObj + 1, src,
                                             xfermode = "DstOut")
        d2 == [acc.d EXCEPT !.nObj = @ + 1]
        d3 == IF srcModes
              THEN pushXObjectResource(d2, src).d
              ELSE d2
        g1 == addGraphicStateResource(d3, sMaskGS)
        g2 == addGraphicStateResource(g1.d, getNoSMaskGraphicState)
    IN writeContent(g2.d, acc.entry,
                    <<ApplyGraphicState(g1.index),
                      DrawFormXObject(Len(d3.fXObjectResources) - 1),
                      ApplyGraphicState(g2.index)>>)

\* finishContentEntry lines 1257-1294, d being the device once the
\* destination was redrawn outside the clip
finishInClip(d, src, xfermode, dst) ==
    IF src = NoXObject \/ d.status # "ok"
    THEN d
    ELSE writeInClipContent(
             setUpContentEntry(d, fExistingClipStack, fExistingClipRegion,
                               "I", stockPaint, FALSE),
             src, xfermode, dst)

\* finishContentEntry lines 1255-1294, `taken` being the device and the form
\* object of the source
finishWithSource(taken, clipStack, clipRegion, xfermode, dst) ==
    finishInClip(
        drawFormXObjectWithClip(taken.d, dst, clipStack, clipRegion, TRUE),
        taken.xobject, xfermode, dst)

\* the two SkASSERTs finishContentEntry makes for a soft-mask mode
finishAsserts(d, dst) ==
    [d EXCEPT !.failed = @
        \cup (IF dst # NoXObject THEN {}
              ELSE {"finishContentEntry: dst"})
        \cup (IF d.entries[d.fContentEntries].fNext = NULL THEN {}
              ELSE {"finishContentEntry: head has no successor"})]

\* SkPDFDevice::finishContentEntry
finishContentEntry(d, xfermode, dst) ==
    IF d.status # "ok"
    THEN d
    ELSE IF xfermode \notin SoftMaskModes
    THEN [d EXCEPT !.failed = IF dst = NoXObject THEN @
                              ELSE @ \cup {"finishContentEntry: !dst"}]
    ELSE finishWithSource(takeSrcFormXObject(finishAsserts(d, dst)),
                          d.entries[d.fContentEntries].fState.fClipStack,
                          d.entries[d.fContentEntries].fState.fClipRegion,
                          xfermode, dst)

----------------------------------------------------------------------------
(* The public draw calls.  A call is given a draw (clip stack, clip region, *)
(* matrix) and a paint.  The instruction that draws is marked with the      *)
(* number of the public call that wrote it and the blend mode of its paint; *)
(* its operands are not modelled.                                          *)

\* the instructions appended to the buffer of `entry` between d0 and d1
AppendedTo(d0, d1, entry) ==
    IF entry = NULL THEN <<>>
    ELSE SubSeq(d1.entries[entry].fContent,
                Len(d0.entries[entry].fContent) + 1,
                Len(d1.entries[entry].fContent))

\* A public call returns: the accessor `acc` it held is destroyed on the
\* device `recorded`.  d is the device after the call; entry, state (the
\* state captured for the call), wrote (what the call wrote into the entry)
\* and recorded tell what the accessor got and what it was destroyed on.
Returned(acc, recorded, xfermode) ==
    [d |-> leaveContentEntry(acc, recorded, xfermode),
     entry |-> acc.entry, state |-> acc.state,
     wrote |-> AppendedTo(acc.d, recorded, acc.entry),
     recorded |-> recorded]

\* the instructions of drawRect / drawPath: the path and its paint operator
rectBytes(d, paint) == <<Tok("re", d.call, paint.xfermode)>>

\* drawRect after its ContentEntryAccessor got `entry`, up to its return
recordRect(d, entry, paint) ==
    IF entry = NULL THEN d ELSE writeContent(d, entry, rectBytes(d, paint))

\* drawRect from its ContentEntryAccessor `acc` on
drawRectInto(acc, paint) ==
    Returned(acc, recordRect(acc.d, acc.entry, paint), paint.xfermode)

\* drawPath lines 714-733: the paint drawPath calls itself with once the
\* path effect is applied to the path (the outline of a path that is no
\* hairline is filled)
noEffectPaint(paint) ==
    [paint EXCEPT !.pathEffect = FALSE, !.style = kFill_Style]

\* SkPDFDevice::drawPath, no prePathMatrix
drawPath(d, clipStack, clipRegion, matrix, paint) ==
    IF paint.pathEffect /\ clipRegion.empty
    THEN [d |-> d, entry |-> NULL, state |-> GraphicStateEntry, wrote |-> <<>>,
          recorded |-> d]
    ELSE drawRectInto(
             setUpContentEntry(d, clipStack, clipRegion, matrix,
                               noEffectPaint(paint), FALSE),
             noEffectPaint(paint))

\* SkPDFDevice::drawRect; with a path effect the rectangle goes to drawPath
\* as a path (lines 674-682, drawPath repeats the test of the clip)
drawRect(d, clipStack, clipRegion, matrix, paint) ==
    IF paint.pathEffect
    THEN drawPath(d, clipStack, clipRegion, matrix, paint)
    ELSE drawRectInto(
             setUpContentEntry(d, clipStack, clipRegion, matrix, paint, FALSE),
             paint)

\* the matrix internalDrawBitmap builds: the unit square scaled to the
\* bitmap and flipped, then the draw's matrix
scaledMatrix(matrix) == IF matrix = "I" THEN "S" ELSE "S*M"

\* internalDrawBitmap after its ContentEntryAccessor got `entry`, up to its
\* return.  bitmap.miss: srcRect is given and does not intersect the
\* bitmap; bitmap.ok: CreateImage gives an image.
recordBitmap(d, entry, bitmap) ==
    IF entry = NULL \/ bitmap.miss \/ CreateImage(bitmap) = NoXObject
    THEN d
    ELSE LET x == pushXObjectResource(d, CreateImage(bitmap)) IN
         writeContent(x.d, entry, <<DrawFormXObject(x.index)>>)

\* internalDrawBitmap from its ContentEntryAccessor `acc` on
internalDrawBitmapInto(acc, bitmap, paint) ==
    Returned(acc, recordBitmap(acc.d, acc.entry, bitmap), paint.xfermode)

\* SkPDFDevice::internalDrawBitmap
internalDrawBitmap(d, matrix, clipStack, clipRegion, bitmap, paint) ==
    internalDrawBitmapInto(
        setUpContentEntry(d, clipStack, clipRegion, scaledMatrix(matrix),
                          paint, FALSE),
        bitmap, paint)

\* SkPDFDevice::drawBitmap
drawBitmap(d, clipStack, clipRegion, matrix, bitmap, paint) ==
    IF clipRegion.empty
    THEN [d |-> d, entry |-> NULL, state |-> GraphicStateEntry, wrote |-> <<>>,
          recorded |-> d]
    ELSE internalDrawBitmap(d, matrix, clipStack, clipRegion, bitmap, paint)

\* SkPDFDevice::updateFont.  fTextSize of the entry is never written, it
\* stays NaN and differs from every text size.
updateFont(d, paint, contentEntry) ==
    IF \/ d.entries[contentEntry].fState.fFont = NoFont
       \/ d.entries[contentEntry].fState.fTextSize # paint.textSize
    THEN LET f == getFontResourceIndex(d, paint.typeface)
             d1 == writeContent(f.d, contentEntry,
                                <<Tok("Tf", f.index, paint.typeface)>>)
         IN [d1 EXCEPT !.entries[contentEntry].fState.fFont =
                           d1.fFontResources[f.index + 1]]
    ELSE d

\* drawText after its ContentEntryAccessor got `entry`, up to its return
recordText(d, entry, paint) ==
    IF entry = NULL THEN d
    ELSE LET d1 == writeContent(d, entry, <<Tok("BT", -1, "")>>)
             d2 == updateFont(d1, paint, entry)
         IN writeContent(d2, entry,
                         <<Tok("Tj", d.call, paint.xfermode), Tok("ET", -1, "")>>)

\* drawText from its ContentEntryAccessor `acc` on
drawTextInto(acc, paint) ==
    Returned(acc, recordText(acc.d, acc.entry, paint), paint.xfermode)

\* drawText returns after its underline: `rec` is the device when the text
\* was written, `under` the device the drawRect of the underline returned
\* with; the accessor of the text is destroyed on the latter
underlinedTextReturned(acc, rec, under, xfermode) ==
    [d |-> leaveContentEntry(acc, under, xfermode),
     entry |-> acc.entry, state |-> acc.state,
     wrote |-> AppendedTo(acc.d, rec, acc.entry),
     recorded |-> under]

\* drawText of underlined text from its ContentEntryAccessor `acc` on: the
\* call returns when it got no entry (lines 773-775), else it writes the
\* text and calls drawRect with the paint of the text for the underline
\* (lines 824-832) while it holds its accessor
drawUnderlinedTextInto(acc, clipStack, clipRegion, matrix, paint) ==
    IF acc.entry = NULL
    THEN Returned(acc, acc.d, paint.xfermode)
    ELSE underlinedTextReturned(
             acc, recordText(acc.d, acc.entry, paint),
             drawRect(recordText(acc.d, acc.entry, paint),
                      clipStack, clipRegion, matrix, paint).d,
             paint.xfermode)

\* SkPDFDevice::drawText, one run of glyphs of one font, no strike-through
drawText(d, clipStack, clipRegion, matrix, paint) ==
    IF paint.underline
    THEN drawUnderlinedTextInto(
             setUpContentEntry(d, clipStack, clipRegion, matrix, paint, TRUE),
             clipStack, clipRegion, matrix, paint)
    ELSE drawTextInto(
             setUpContentEntry(d, clipStack, clipRegion, matrix, paint, TRUE),
             paint)

\* drawDevice lines 934-937: the form object of the source `device` is made
\* (`walked` is what its constructor's call of content() returns), pushed
\* and drawn.  On a cyclic chain of the source content() never returns.
recordDevice(d, entry, device, walked) ==
    IF entry = NULL THEN d
    ELSE IF walked.hang THEN [d EXCEPT !.status = "hang"]
         ELSE writeContent(
                  [d EXCEPT !.fXObjectResources =
                                Append(@, SkPDFFormXObject(device, d.nObj + 1, walked)),
                            !.nObj = @ + 1,
                            !.failed = @ \cup walked.failed],
                  entry, <<DrawFormXObject(Len(d.fXObjectResources))>>)

\* drawDevice from its ContentEntryAccessor `acc` on
drawDeviceInto(acc, device, paint) ==
    Returned(acc, recordDevice(acc.d, acc.entry, device, content(device)),
             paint.xfermode)

\* SkPDFDevice::drawDevice with a vector-capable (SkPDFDevice) source at
\* (x, y); matrix is the translation to (x, y)
drawDevice(d, clipStack, clipRegion, matrix, paint, device) ==
    IF isContentEmpty(device)
    THEN [d |-> d, entry |-> NULL, state |-> GraphicStateEntry, wrote |-> <<>>,
          recorded |-> d]
    ELSE drawDeviceInto(
             setUpContentEntry(d, clipStack, clipRegion, matrix, paint, FALSE),
             device, paint)

----------------------------------------------------------------------------
(* The calls explored *)

Clip(stack, region) == [stack |-> stack, region |-> region]
ClipInherited == Clip(fExistingClipStack, fExistingClipRegion)
ClipB == Clip(<<StepA, StepB>>, RegionOf(<<StepA, StepB>>))
ClipEmpty == Clip(<<StepA, StepB>>, EmptyRegion)
ClipNull == Clip(NullClipStack, RegionOf(<<StepA, StepB>>))

RED == Color(255, "red")
HALF_RED == Color(128, "red")
Pattern1 == [kind |-> "pattern", name |-> "P1", color |-> SK_ColorBLACK]

Paint(color, shader, xfermode, textScaleX, style) ==
    [stockPaint EXCEPT !.color = color, !.shader = shader,
                       !.xfermode = xfermode, !.textScaleX = textScaleX,
                       !.style = style]

Call(clip, matrix, paint) == [clip |-> clip, matrix |-> matrix, paint |-> paint]

\* drawRect calls: every mode on the inherited clip; the accumulating modes
\* on two clips, two transforms and two colours; a pattern; a shader of one
\* colour, which is no pattern, on a paint of another colour; an empty clip
\* region in every mode; a draw without clip stack; the modes that erase or
\* mask on a clip and a transform of the draw's own.
RectCalls ==
    {Call(ClipInherited, "I", Paint(SK_ColorBLACK, NoShader, m, 1, kFill_Style)) :
        m \in Modes}
    \cup {Call(c, mx, Paint(col, NoShader, m, 1, kFill_Style)) :
        c \in {ClipInherited, ClipB}, mx \in {"I", "M1"},
        col \in {SK_ColorBLACK, RED, HALF_RED}, m \in {"SrcOver", "DstOver"}}
    \cup {Call(ClipInherited, "I", Paint(col, Pattern1, "SrcOver", 1, kFill_Style)) :
        col \in {SK_ColorBLACK, RED}}
    \cup {Call(ClipEmpty, "I", Paint(SK_ColorBLACK, NoShader, m, 1, kFill_Style)) :
        m \in Modes}
    \cup {Call(ClipNull, "I", Paint(SK_ColorBLACK, NoShader, "SrcOver", 1, kFill_Style))}
    \cup {Call(ClipB, "M1", Paint(RED, NoShader, m, 1, kFill_Style)) :
        m \in SoftMaskModes \cup {"Clear", "Src"}}
    \cup {Call(ClipInherited, "I",
               Paint(SK_ColorBLACK,
                     [kind |-> "color", name |-> "", color |-> HALF_RED],
                     "SrcOver", 1, kFill_Style))}
    \cup {Call(c, "M1", [Paint(RED, NoShader, "SrcOver", 1, kFill_Style)
                            EXCEPT !.pathEffect = TRUE]) :
        c \in {ClipB, ClipEmpty}}

Bitmap(name, ok, miss) == [name |-> name, ok |-> ok, miss |-> miss]
Bitmaps == {Bitmap("b1", TRUE, FALSE), Bitmap("b1", FALSE, FALSE),
            Bitmap("b1", TRUE, TRUE)}

BitmapCalls ==
    {Call(ClipInherited, "I", Paint(col, NoShader, m, 1, kFill_Style)) :
        col \in {SK_ColorBLACK, RED}, m \in {"SrcOver", "DstOver", "Dst"}}
    \cup {Call(ClipEmpty, "I", Paint(SK_ColorBLACK, NoShader, "SrcOver", 1, kFill_Style))}
    \cup {Call(ClipInherited, "I", Paint(SK_ColorBLACK, NoShader, "SrcIn", 1, kFill_Style))}

\* drawDevice calls: at (x, y), on the inherited clip and on an empty one
DeviceCalls ==
    {Call(c, "T", Paint(SK_ColorBLACK, NoShader, "SrcOver", 1, kFill_Style)) :
        c \in {ClipInherited, ClipEmpty}}

\* the source devices drawn: a new one, one holding a rectangle, one holding
\* text
SourceDevices ==
    {NewDevice,
     drawRect([NewDevice EXCEPT !.call = 1], ClipInherited.stack,
              ClipInherited.region, "I", stockPaint).d,
     drawText([NewDevice EXCEPT !.call = 1], ClipInherited.stack,
              ClipInherited.region, "I", stockPaint).d}

TextCalls ==
    {Call(ClipInherited, "I", Paint(SK_ColorBLACK, NoShader, m, sx, st)) :
        m \in {"SrcOver", "Dst"}, sx \in {1, 2}, st \in {kFill_Style, kStroke_Style}}
    \cup {Call(ClipInherited, "I",
               [Paint(SK_ColorBLACK, NoShader, "SrcOver", 1, kFill_Style)
                  EXCEPT !.pathEffect = TRUE])}
    \cup {Call(ClipInherited, "I",
               [Paint(SK_ColorBLACK, NoShader, m, 1, kFill_Style)
                  EXCEPT !.underline = TRUE]) : m \in {"SrcOver", "SrcIn"}}

----------------------------------------------------------------------------
(* The state machine of one device: public calls, then content() *)

NoCall == [op |-> "none", mode |-> "none", emptyClip |-> FALSE,
           entry |-> NULL, state |-> GraphicStateEntry, wrote |-> <<>>,
           recorded |-> NewDevice, clip |-> ClipInherited,
           paint |-> stockPaint, bitmap |-> Bitmap("", TRUE, FALSE),
           device |-> NewDevice]

\* what a call was, what its ContentEntryAccessor got (the entry and the
\* state captured for the call), what the call wrote into the entry, the
\* device its accessor was destroyed on, the clip and the paint of the call,
\* the bitmap of a drawBitmap (no bitmap for any other call) and the source
\* device of a drawDevice, as the call leaves it (a new device for any other
\* call)
Called(op, c, returned) ==
    [op |-> op, mode |-> c.paint.xfermode, emptyClip |-> c.clip.region.empty,
     entry |-> returned.entry, state |-> returned.state,
     wrote |-> returned.wrote, recorded |-> returned.recorded,
     clip |-> c.clip, paint |-> c.paint, bitmap |-> Bitmap("", TRUE, FALSE),
     device |-> NewDevice]

Init ==
    /\ dev = NewDevice
    /\ gsState = NewGraphicStackState(fExistingClipStack, fExistingClipRegion, <<>>)
    /\ pc = "record"
    /\ walk = [entry |-> NULL, copied |-> <<>>]
    /\ nCalls = 0
    /\ last = NoCall

CanDraw == pc = "record" /\ nCalls < MaxDraws /\ dev.status = "ok"

Entering == [dev EXCEPT !.call = nCalls + 1]

\* the public call `op` returns: the device is the one it leaves
Return(op, c, returned) ==
    /\ dev' = returned.d
    /\ last' = Called(op, c, returned)
    /\ nCalls' = nCalls + 1
    /\ UNCHANGED <<gsState, pc, walk>>

DrawRect(c) ==
    /\ CanDraw
    /\ Return("drawRect", c,
              drawRect(Entering, c.clip.stack, c.clip.region, c.matrix, c.paint))

DrawText(c) ==
    /\ CanDraw
    /\ Return("drawText", c,
              drawText(Entering, c.clip.stack, c.clip.region, c.matrix, c.paint))

\* a public call given a bitmap or a source device returns.  drawDevice
\* reads its source device (lines 923 and 934), no line writes it.
ReturnGiven(op, c, bitmap, device, returned) ==
    /\ dev' = returned.d
    /\ last' = [Called(op, c, returned) EXCEPT !.bitmap = bitmap,
                                               !.device = device]
    /\ nCalls' = nCalls + 1
    /\ UNCHANGED <<gsState, pc, walk>>

DrawBitmap(c, bitmap) ==
    /\ CanDraw
    /\ ReturnGiven("drawBitmap", c, bitmap, NewDevice,
                   drawBitmap(Entering, c.clip.stack, c.clip.region, c.matrix,
                              bitmap, c.paint))

DrawDevice(c, device) ==
    /\ CanDraw
    /\ ReturnGiven("drawDevice", c, Bitmap("", TRUE, FALSE),
                   isContentEmptyAssert(device),
                   drawDevice(Entering, c.clip.stack, c.clip.region, c.matrix,
                              c.paint, device))

\* the public call getResourceDict() between draw calls
GetResourceDict ==
    /\ CanDraw
    /\ dev' = getResourceDict(dev)
    /\ last' = [NoCall EXCEPT !.op = "getResourceDict"]
    /\ nCalls' = nCalls + 1
    /\ UNCHANGED <<gsState, pc, walk>>

\* content() is entered: the emitter is built, the loop is at the head
ContentStart ==
    /\ pc = "record"
    /\ dev.status = "ok"
    /\ pc' = "content"
    /\ gsState' = contentBegin(dev)
    /\ walk' = [entry |-> dev.fContentEntries, copied |-> <<>>]
    /\ UNCHANGED <<dev, nCalls, last>>

\* one turn of the loop of content(): the entry is diffed and copied.  A turn
\* that copies an entry a second time is on a cyclic chain: the loop never
\* ends.
ContentEntryStep ==
    /\ pc = "content"
    /\ walk.entry # NULL
    /\ gsState' = contentEntryStep(gsState, dev.entries[walk.entry])
    /\ walk' = [entry |-> dev.entries[walk.entry].fNext,
                copied |-> Append(walk.copied, walk.entry)]
    /\ pc' = IF \E i \in 1..Len(walk.copied) : walk.copied[i] = walk.entry
             THEN "hang" ELSE pc
    /\ UNCHANGED <<dev, nCalls, last>>

\* the loop has ended: drainStack(), the stream is returned
ContentFinish ==
    /\ pc = "content"
    /\ walk.entry = NULL
    /\ gsState' = drainStack(gsState)
    /\ pc' = "done"
    /\ UNCHANGED <<dev, walk, nCalls, last>>

Next ==
    \/ \E c \in RectCalls : DrawRect(c)
    \/ \E c \in BitmapCalls, b \in Bitmaps : DrawBitmap(c, b)
    \/ \E c \in TextCalls : DrawText(c)
    \/ \E c \in DeviceCalls, device \in SourceDevices : DrawDevice(c, device)
    \/ GetResourceDict
    \/ ContentStart
    \/ ContentEntryStep
    \/ ContentFinish

Spec == Init /\ [][Next]_vars

----------------------------------------------------------------------------
(* The state machine of one free-standing GraphicStackState: any sequence   *)
(* of updateClip / updateMatrix / updateDrawingState calls, of whole loop   *)
(* bodies of content(), and drainStack().                                  *)

EmitClips ==
    {<<StepA>>, <<StepA, StepB>>, <<StepA, StepB, StepC>>, <<StepA, StepD>>,
     <<StepA, StepB, StepP>>}
EmitMatrices == {"I", "M1", "M2"}

DrawingState(color, shaderIndex, graphicStateIndex, textScaleX, textFill) ==
    [GraphicStateEntry EXCEPT !.fColor = color,
                              !.fShaderIndex = shaderIndex,
                              !.fGraphicStateIndex = graphicStateIndex,
                              !.fTextScaleX = textScaleX,
                              !.fTextFill = textFill]
EmitDrawingStates ==
    {DrawingState(col, sh, gs, t[1], t[2]) :
        col \in {SK_ColorBLACK, RED}, sh \in {-1, 0}, gs \in {0, 1},
        t \in {<<0, kFill_Style>>, <<2, kStroke_Style>>}}

CapturedState(clipStack, matrix, drawing) ==
    [drawing EXCEPT !.fClipStack = clipStack,
                    !.fClipRegion = RegionOf(clipStack),
                    !.fMatrix = matrix]
EmitCapturedStates ==
    {CapturedState(c, m, s) : c \in EmitClips, m \in EmitMatrices,
                              s \in EmitDrawingStates}
EmitEntryStates ==
    {CapturedState(c, m, s) :
        c \in {<<StepA>>, <<StepA, StepB, StepC>>, <<StepA, StepD>>},
        m \in {"I", "M1"},
        s \in {DrawingState(SK_ColorBLACK, -1, 0, 0, kFill_Style),
               DrawingState(RED, -1, 1, 2, kStroke_Style),
               DrawingState(SK_ColorBLACK, 0, 0, 0, kFill_Style)}}

\* the last call on the emitter: its argument, the call before it, and the
\* length of the stream before it
EmitCalled(op, arg) ==
    [op |-> op, arg |-> arg, from |-> Len(gsState.out),
     prev |-> [op |-> last.op, arg |-> last.arg]]

InitEmit ==
    /\ dev = NewDevice
    /\ gsState = NewGraphicStackState(fExistingClipStack, fExistingClipRegion, <<>>)
    /\ pc = "emit"
    /\ walk = [entry |-> NULL, copied |-> <<>>]
    /\ nCalls = 0
    /\ last = [op |-> "none", arg |-> GraphicStateEntry, from |-> 0,
               prev |-> [op |-> "none", arg |-> GraphicStateEntry]]

CanEmit == pc = "emit" /\ nCalls < MaxOps

EmitUpdateClip(c) ==
    /\ CanEmit
    /\ gsState' = updateClip(gsState, c, RegionOf(c))
    /\ last' = EmitCalled("updateClip", CapturedState(c, "I", GraphicStateEntry))
    /\ nCalls' = nCalls + 1
    /\ UNCHANGED <<dev, pc, walk>>

EmitUpdateMatrix(m) ==
    /\ CanEmit
    /\ gsState' = updateMatrix(gsState, m)
    /\ last' = EmitCalled("updateMatrix", [GraphicStateEntry EXCEPT !.fMatrix = m])
    /\ nCalls' = nCalls + 1
    /\ UNCHANGED <<dev, pc, walk>>

EmitUpdateDrawingState(s) ==
    /\ CanEmit
    /\ gsState' = updateDrawingState(gsState, s)
    /\ last' = EmitCalled("updateDrawingState", s)
    /\ nCalls' = nCalls + 1
    /\ UNCHANGED <<dev, pc, walk>>

\* the loop body of content() for an entry of state s without content
EmitEntry(s) ==
    /\ CanEmit
    /\ gsState' = contentEntryStep(gsState, [ContentEntry EXCEPT !.fState = s])
    /\ last' = EmitCalled("entry", s)
    /\ nCalls' = nCalls + 1
    /\ UNCHANGED <<dev, pc, walk>>

EmitDrainStack ==
    /\ pc = "emit"
    /\ gsState' = drainStack(gsState)
    /\ last' = EmitCalled("drainStack", GraphicStateEntry)
    /\ pc' = "drained"
    /\ UNCHANGED <<dev, walk, nCalls>>

NextEmit ==
    \/ \E c \in EmitClips : EmitUpdateClip(c)
    \/ \E m \in EmitMatrices : EmitUpdateMatrix(m)
    \/ \E s \in EmitDrawingStates : EmitUpdateDrawingState(s)
    \/ \E s \in EmitEntryStates : EmitEntry(s)
    \/ EmitDrainStack

SpecEmit == InitEmit /\ [][NextEmit]_vars

----------------------------------------------------------------------------
(* The state machine of the four resource tables of one device: objects    *)
(* are offered to the tables one at a time.                                *)

GraphicStateObjects ==
    {GSObject("paint", 255, 0, NoXObject, FALSE),
     GSObject("paint", 128, 0, NoXObject, FALSE),
     GSObject("smask", 255, 1, XObject("form", 1, "", <<>>, NoResources), FALSE),
     getNoSMaskGraphicState}
ShaderObjects ==
    {ShaderObject("P1", "I", fExistingClipRegion),
     ShaderObject("P1", "M1", fExistingClipRegion),
     ShaderObject("P2", "I", fExistingClipRegion)}
FontObjects == {"default", "serif", "mono"}
XObjects ==
    {XObject("image", 0, "b1", <<>>, NoResources),
     XObject("image", 0, "b2", <<>>, NoResources),
     XObject("form", 1, "", <<>>, NoResources)}

\* the last offer: the table, the object, the index returned
Offered(ns, obj, index) == [op |-> "offer", ns |-> ns, obj |-> obj, index |-> index]

InitTables ==
    /\ dev = NewDevice
    /\ gsState = NewGraphicStackState(fExistingClipStack, fExistingClipRegion, <<>>)
    /\ pc = "tables"
    /\ walk = [entry |-> NULL, copied |-> <<>>]
    /\ nCalls = 0
    /\ last = Offered("none", NoXObject, -1)

CanOffer == pc = "tables" /\ nCalls < MaxOffers

OfferGraphicState(gs) ==
    /\ CanOffer
    /\ dev' = addGraphicStateResource(dev, gs).d
    /\ last' = Offered("G", gs, addGraphicStateResource(dev, gs).index)
    /\ nCalls' = nCalls + 1
    /\ UNCHANGED <<gsState, pc, walk>>

OfferShader(pdfShader) ==
    /\ CanOffer
    /\ dev' = addShaderResource(dev, pdfShader).d
    /\ last' = Offered("P", pdfShader, addShaderResource(dev, pdfShader).index)
    /\ nCalls' = nCalls + 1
    /\ UNCHANGED <<gsState, pc, walk>>

OfferFont(font) ==
    /\ CanOffer
    /\ dev' = addFontResource(dev, font).d
    /\ last' = Offered("F", font, addFontResource(dev, font).index)
    /\ nCalls' = nCalls + 1
    /\ UNCHANGED <<gsState, pc, walk>>

OfferXObject(obj) ==
    /\ CanOffer
    /\ dev' = pushXObjectResource(dev, obj).d
    /\ last' = Offered("X", obj, pushXObjectResource(dev, obj).index)
    /\ nCalls' = nCalls + 1
    /\ UNCHANGED <<gsState, pc, walk>>

NextTables ==
    \/ \E gs \in GraphicStateObjects : OfferGraphicState(gs)
    \/ \E sh \in ShaderObjects : OfferShader(sh)
    \/ \E f \in FontObjects : OfferFont(f)
    \/ \E x \in XObjects : OfferXObject(x)

SpecTables == InitTables /\ [][NextTables]_vars

----------------------------------------------------------------------------
(* Properties of the State Diff Emitter *)

\* the number of `op` instructions in a stream
CountOp(toks, op) == Cardinality({i \in 1..Len(toks) : toks[i].op = op})

\* the instructions the last call on the emitter wrote
Written == SubSeq(gsState.out, last.from + 1, Len(gsState.out))

IsClipTok(t) == t.op \in {"W-rect", "W-path", "W-region"}
IsStepClipTok(t) == t.op \in {"W-rect", "W-path"}

\* the steps of a target chain that come after the chain held in frame 0
StepsBeyondInherited(target) ==
    [i \in 1..(Len(target) - Len(gsState.fEntries[0].fClipStack)) |->
        target[Len(gsState.fEntries[0].fClipStack) + i]]

\* C2: on a free-standing emitter, after any sequence of updateClip /
\* updateMatrix / updateDrawingState calls, every prefix of the output has at
\* most as many restores (Q) as saves (q), fStackDepth is the number of saves
\* minus the number of restores, no pop ran at depth 0, and once drainStack()
\* has run fStackDepth is 0 and the two counts are equal.
C2_SaveRestoreBalanced ==
    /\ \A k \in 0..Len(gsState.out) :
          CountOp(SubSeq(gsState.out, 1, k), "Q")
              <= CountOp(SubSeq(gsState.out, 1, k), "q")
    /\ gsState.fStackDepth = CountOp(gsState.out, "q") - CountOp(gsState.out, "Q")
    /\ "pop: fStackDepth > 0" \notin gsState.failed
    /\ pc = "drained" =>
          /\ gsState.fStackDepth = 0
          /\ CountOp(gsState.out, "q") = CountOp(gsState.out, "Q")

\* an emitter drained after three saves, one of them following a restore
C2_Witness ==
    /\ pc = "drained"
    /\ CountOp(gsState.out, "q") = 3
    /\ \E i, j \in 1..Len(gsState.out) :
          i < j /\ gsState.out[i].op = "Q" /\ gsState.out[j].op = "q"

\* one round: updateClip, updateMatrix and updateDrawingState with state S
Round(g, S) ==
    updateDrawingState(
        updateMatrix(updateClip(g, S.fClipStack, S.fClipRegion), S.fMatrix), S)

\* C3: from every reachable emitter state and for every captured state S, a
\* second round of updateClip, updateMatrix, updateDrawingState with S right
\* after a first one writes nothing and leaves the stack depth and every frame
\* as the first round left them.
C3_SecondRoundWritesNothing ==
    pc = "emit" =>
        \A S \in EmitCapturedStates :
            LET g1 == Round(gsState, S)
                g2 == Round(g1, S)
            IN /\ g2.out = g1.out
               /\ g2.fStackDepth = g1.fStackDepth
               /\ g2.fEntries = g1.fEntries

\* two loop bodies in a row with one state: the first wrote a clip, a
\* transform and drawing state, the second wrote nothing
C3_Witness ==
    /\ last.op = "entry"
    /\ last.prev.op = "entry"
    /\ last.arg = last.prev.arg
    /\ nCalls = 2
    /\ gsState.fStackDepth = 2
    /\ CountOp(gsState.out, "gs") = 1
    /\ Written = <<>>

\* C4: an updateClip call whose target chain is the chain of the current
\* frame writes nothing; a call that writes clip instructions writes per-step
\* instructions only for the steps of the target chain after the chain of
\* frame 0, in chain order, and none for a step of the chain of frame 0.
C4_OnlyStepsBeyondInherited ==
    [][(last'.op = "updateClip" /\ nCalls' = nCalls + 1) =>
        LET target == last'.arg.fClipStack
            written == SubSeq(gsState'.out, Len(gsState.out) + 1, Len(gsState'.out))
            stepToks == SelectSeq(written, IsStepClipTok)
            beyond == StepsBeyondInherited(target)
        IN /\ target = currentEntry(gsState).fClipStack => written = <<>>
           /\ stepToks # <<>> =>
                 /\ Len(stepToks) = Len(beyond)
                 /\ \A i \in 1..Len(beyond) : stepToks[i].x = beyond[i].name
           /\ \A i \in 1..Len(stepToks) :
                 \A j \in 1..Len(gsState.fEntries[0].fClipStack) :
                     stepToks[i].x # gsState.fEntries[0].fClipStack[j].name
      ]_vars

\* inherited [A], target [A, B, C]: exactly B then C were written
C4_Witness ==
    /\ last.op = "updateClip"
    /\ last.arg.fClipStack = <<StepA, StepB, StepC>>
    /\ SelectSeq(Written, IsClipTok)
         = <<Tok("W-rect", -1, "B"), Tok("W-path", -1, "C")>>

\* C5: an updateClip call that has to emit a clip (it saved a new frame)
\* writes exactly one clip instruction, built from the region, when a step
\* after the inherited chain has a combine op other than intersect or is a
\* path of inverse fill type; otherwise it writes one per-step clip
\* instruction for each such step and none built from the region.
C5_RegionOrPerStep ==
    (last.op = "updateClip" /\ CountOp(Written, "q") > 0) =>
        LET beyond == StepsBeyondInherited(last.arg.fClipStack)
            clipToks == SelectSeq(Written, IsClipTok)
        IN IF \E i \in 1..Len(beyond) :
                 \/ beyond[i].op # "intersect"
                 \/ (beyond[i].shape = "path" /\ beyond[i].inverse)
           THEN /\ Len(clipToks) = 1
                /\ clipToks[1].op = "W-region"
           ELSE /\ Len(clipToks) = Len(beyond)
                /\ \A i \in 1..Len(clipToks) : IsStepClipTok(clipToks[i])

\* a difference step after the inherited chain: one region clip, no more
C5_Witness ==
    /\ last.op = "updateClip"
    /\ last.arg.fClipStack = <<StepA, StepD>>
    /\ SelectSeq(Written, IsClipTok) = <<Tok("W-region", -1, "boundary")>>

----------------------------------------------------------------------------
(* Properties of the device *)

\* a step of a public call on the device or of an offer to a table
IsCallStep == nCalls' = nCalls + 1

\* the public call that returns was one draw: it held one accessor and made
\* no draw call of its own (drawText makes one for an underline)
IsOneDraw == ~last'.paint.underline

\* the entries met following fNext from `entry`, at most `fuel` of them
RECURSIVE ChainFrom(_, _, _)
ChainFrom(d, entry, fuel) ==
    IF entry = NULL \/ fuel = 0 THEN <<>>
    ELSE <<entry>> \o ChainFrom(d, d.entries[entry].fNext, fuel - 1)

\* the chain of a device; it is longer than the heap when it is cyclic
Chain(d) == ChainFrom(d, d.fContentEntries, Len(d.entries) + 1)

\* the four resource tables
Tables(d) ==
    <<d.fGraphicStateResources, d.fXObjectResources, d.fFontResources,
      d.fShaderResources>>

NoDuplicates(seq) ==
    \A i, j \in 1..Len(seq) : i # j => seq[i] # seq[j]

\* the instructions entries write, as against those of the emitter
IsContentTok(t) == t.op \in {"re", "Do", "BT", "Tf", "Tj", "ET", "paint"}

\* the buffers of the entries of seq, one after the other
RECURSIVE Buffers(_, _)
Buffers(d, seq) ==
    IF seq = <<>> THEN <<>>
    ELSE d.entries[Head(seq)].fContent \o Buffers(d, Tail(seq))

\* the emitter's frame agrees with a captured state
Agrees(frame, state) ==
    /\ frame.fClipStack = state.fClipStack
    /\ frame.fMatrix = state.fMatrix
    /\ frame.fGraphicStateIndex = state.fGraphicStateIndex
    /\ IF state.fShaderIndex >= 0
       THEN frame.fShaderIndex = state.fShaderIndex
       ELSE frame.fColor = state.fColor /\ frame.fShaderIndex < 0
    /\ state.fTextScaleX # 0 =>
          /\ frame.fTextScaleX = state.fTextScaleX
          /\ frame.fTextFill = state.fTextFill

\* every turn of the loop of content() leaves the current frame in agreement
\* with the state of the entry it copied, and the entry's buffer at the end
\* of the output
CopiedInAgreement ==
    [][(pc = "content" /\ walk' # walk) =>
         /\ Agrees(currentEntry(gsState'), dev.entries[walk.entry].fState)
         /\ Len(gsState'.out) >= Len(dev.entries[walk.entry].fContent)
         /\ SubSeq(gsState'.out,
                   Len(gsState'.out) - Len(dev.entries[walk.entry].fContent) + 1,
                   Len(gsState'.out)) = dev.entries[walk.entry].fContent
      ]_vars

\* no buffer is copied twice, and the stream returned holds the buffers of
\* the chain in chain order
CopiedOnce ==
    /\ NoDuplicates(walk.copied)
    /\ pc = "done" =>
          /\ walk.copied = Chain(dev)
          /\ SelectSeq(gsState.out, IsContentTok)
               = SelectSeq(Buffers(dev, walk.copied), IsContentTok)

\* C1: in content(), when the buffer of an entry is copied the current frame
\* of the emitter agrees with the entry's captured state (clip chain,
\* transform, extended-state index, fill source, and text scale and fill mode
\* when the entry's text scale is not 0), and every buffer is copied exactly
\* once, in chain order.
C1_CopiedInAgreementExactlyOnce == CopiedInAgreement /\ []CopiedOnce

\* the fields of two captured states that C6 names
SameCaptured(a, b) ==
    /\ a.fMatrix = b.fMatrix
    /\ a.fClipStack = b.fClipStack
    /\ a.fColor = b.fColor
    /\ a.fShaderIndex = b.fShaderIndex
    /\ a.fGraphicStateIndex = b.fGraphicStateIndex

\* C6: when two draw calls in a row, both source-over, neither with text,
\* captured states with the same transform, clip chain, fill colour, pattern
\* index and extended-state index, the second call got the entry of the
\* first, which is the tail; the chain and the heap are as they were; the
\* entry's buffer is what the first call left, which ends with the first
\* call's bytes, followed by the second call's bytes.
C6_SameStateMerges ==
    [][(/\ IsCallStep
        /\ last.op # "none"
        /\ last.mode = "SrcOver" /\ last'.mode = "SrcOver"
        /\ last.entry # NULL /\ last'.entry # NULL
        /\ last.state.fTextScaleX = 0 /\ last'.state.fTextScaleX = 0
        /\ SameCaptured(last.state, last'.state))
       =>
        /\ last'.entry = last.entry
        /\ last.entry = dev.fLastContentEntry
        /\ dev'.fLastContentEntry = dev.fLastContentEntry
        /\ Chain(dev') = Chain(dev)
        /\ Len(dev'.entries) = Len(dev.entries)
        /\ dev'.entries[last.entry].fContent
             = dev.entries[last.entry].fContent \o last'.wrote
        /\ SubSeq(dev.entries[last.entry].fContent,
                  Len(dev.entries[last.entry].fContent) - Len(last.wrote) + 1,
                  Len(dev.entries[last.entry].fContent)) = last.wrote
      ]_vars

\* two drawRect calls of one state: one entry holding both rectangles
C6_Witness ==
    /\ nCalls = 2
    /\ last.op = "drawRect"
    /\ last.mode = "SrcOver"
    /\ last.state.fMatrix = "M1"
    /\ Chain(dev) = <<1>>
    /\ dev.entries[1].fContent
         = <<Tok("re", 1, "SrcOver"), Tok("re", 2, "SrcOver")>>

\* the table of a namespace
TableOf(d, ns) ==
    CASE ns = "G" -> d.fGraphicStateResources
      [] ns = "P" -> d.fShaderResources
      [] ns = "F" -> d.fFontResources
      [] ns = "X" -> d.fXObjectResources

\* an offer to an interning table: an object the table holds gets the index
\* it has there and the table is as it was; an object it does not hold is
\* appended and gets the next index
Interned(before, after, obj, index) ==
    IF \E k \in 1..Len(before) : before[k] = obj
    THEN /\ after = before
         /\ before[index + 1] = obj
    ELSE /\ after = Append(before, obj)
         /\ index = Len(before)

NothingRecorded ==
    /\ last'.entry = NULL
    /\ last'.wrote = <<>>
    /\ dev'.entries = dev.entries
    /\ dev'.fContentEntries = dev.fContentEntries
    /\ dev'.fLastContentEntry = dev.fLastContentEntry
    /\ Tables(dev') = Tables(dev)

\* C8: a draw call in destination mode with a clip region that is not empty
\* gets no entry, writes nothing into any buffer, and leaves the chain, the
\* tail pointer and the four resource tables as they were.
C8_DstDrawsNothing ==
    [][(IsCallStep /\ last'.mode = "Dst" /\ ~last'.emptyClip) => NothingRecorded]_vars

\* a drawText call in destination mode on a device that holds content
C8_Witness ==
    /\ last.op = "drawText"
    /\ last.mode = "Dst" /\ ~last.emptyClip
    /\ last.entry = NULL
    /\ Chain(dev) = <<1>>
    /\ dev.entries[1].fContent # <<>>

\* C9: a draw call whose clip region is empty gets no entry from
\* setUpContentEntry in every blend mode, and nothing is erased or isolated:
\* the chain, the tail pointer and the four resource tables are as they were.
C9_EmptyClipDrawsNothing ==
    [][(IsCallStep /\ last'.emptyClip) => NothingRecorded]_vars

\* a source-in drawRect with an empty clip region on a device that holds
\* content: the content was not isolated
C9_Witness ==
    /\ last.op = "drawRect"
    /\ last.mode = "SrcIn" /\ last.emptyClip
    /\ last.entry = NULL
    /\ Chain(dev) = <<1>>
    /\ dev.entries[1].fContent # <<>>
    /\ dev.fXObjectResources = <<>>

\* the instructions of draw calls in the stream are in the order of the
\* calls, but for those of a destination-over call, which come before those
\* of every earlier call
StreamInDrawOrder(out) ==
    \A i, j \in 1..Len(out) :
        (/\ i < j
         /\ out[i].op \in {"re", "Tj"} /\ out[j].op \in {"re", "Tj"}
         /\ out[i].n # out[j].n)
        => IF out[i].n < out[j].n
           THEN out[j].x # "DstOver"
           ELSE out[i].x = "DstOver"

\* C10: a destination-over draw that records content gets an entry linked in
\* front of the chain as it was, holding the bytes of this call only and,
\* when the chain held entries, not the tail; the tail pointer then stays.
\* In the stream content() returns, the instructions of a destination-over
\* draw come before those of every earlier draw and the others come in the
\* order of the calls.
C10_DstOverLinkedAtHead ==
    /\ [][(/\ IsCallStep
           /\ last'.mode = "DstOver"
           /\ last'.entry # NULL
           /\ last'.wrote # <<>>)
          =>
           /\ dev'.fContentEntries = last'.entry
           /\ Chain(dev') = <<last'.entry>> \o Chain(dev)
           /\ dev'.entries[last'.entry].fContent = last'.wrote
           /\ dev.fLastContentEntry # NULL =>
                 /\ last'.entry # dev.fLastContentEntry
                 /\ dev'.fLastContentEntry = dev.fLastContentEntry
         ]_vars
    /\ [](pc = "done" => StreamInDrawOrder(gsState.out))

\* the embedded object createFormXObjectFromDevice makes of the content of d
FormOf(d) == SkPDFFormXObject(d, d.nObj + 1, content(d))

\* the positions of a table that hold an object satisfying Test
Holding(table, Test(_)) == {k \in 1..Len(table) : Test(table[k])}

\* the call drew on a device that held content, got an entry and wrote
DrewOnContent(mode) ==
    /\ IsCallStep
    /\ IsOneDraw
    /\ last'.mode = mode
    /\ ~isContentEmpty(dev)
    /\ last'.entry # NULL
    /\ last'.wrote # <<>>

\* in the stream `out` there are a mask state, a Do and a reset of the mask,
\* in this order and with no other extended state between them, such that
\* the Do draws an object satisfying IsDrawn and the mask state is a soft
\* mask satisfying IsMask
DrawnUnderMask(d, out, IsDrawn(_), IsMask(_)) ==
    \E i, j, k \in 1..Len(out) :
        /\ i < j /\ j < k
        /\ out[i].op = "gs" /\ out[j].op = "Do" /\ out[k].op = "gs"
        /\ \A m \in (i + 1)..(k - 1) : out[m].op # "gs"
        /\ d.fGraphicStateResources[out[i].n + 1].kind = "smask"
        /\ IsMask(d.fGraphicStateResources[out[i].n + 1])
        /\ IsDrawn(d.fXObjectResources[out[j].n + 1])
        /\ d.fGraphicStateResources[out[k].n + 1] = getNoSMaskGraphicState

\* the embedded object made of the instructions `wrote` alone
IsSourceOf(wrote, x) ==
    x.kind = "form" /\ SelectSeq(x.content, IsContentTok) = wrote

\* C11: a source-in draw that records content on a device that holds
\* content: the former content is in exactly one embedded object D, made
\* before the draw was recorded (the object S made of what the call recorded
\* holds the instructions of this call only); exactly one soft-mask extended
\* state is built from D; and in the stream the instruction that draws S
\* comes after that soft-mask state is applied and before the soft mask is
\* cleared.
C11_SrcInIsolatesDestination ==
    [][DrewOnContent("SrcIn") =>
         LET D == FormOf(dev)
             IsD(x) == x = D
             MaskIsD(g) == g.mask = D
             S == FormOf(last'.recorded)
             IsS(x) == x = S
         IN /\ S # D /\ IsSourceOf(last'.wrote, S)
            /\ Cardinality(Holding(dev'.fXObjectResources, IsD)) = 1
            /\ Cardinality(Holding(dev'.fXObjectResources, IsS)) = 1
            /\ Cardinality({k \in 1..Len(dev'.fGraphicStateResources) :
                               /\ dev'.fGraphicStateResources[k].kind = "smask"
                               /\ MaskIsD(dev'.fGraphicStateResources[k])}) = 1
            /\ DrawnUnderMask(dev', content(dev').stream, IsS, MaskIsD)
      ]_vars

\* a source-in drawRect on a device that held a rectangle: one entry holds
\* both soft-mask passes
C11_Witness ==
    /\ nCalls = 2
    /\ last.op = "drawRect" /\ last.mode = "SrcIn"
    /\ last.wrote = <<Tok("re", 2, "SrcIn")>>
    /\ Len(dev.fXObjectResources) = 2
    /\ dev.fXObjectResources[1].content # <<>>
    /\ Chain(dev) = <<1>>
    /\ Len(dev.entries[1].fContent) = 6

\* C12: in the last soft-mask pass of a draw in one of the four soft-mask
\* modes (the last three instructions of the tail's buffer: a mask state, a
\* Do, the reset of the mask), source-in and source-out draw S under a soft
\* mask built from D, destination-in and destination-out draw D under a soft
\* mask built from S; the mask inverts exactly for source-out and
\* destination-out; the index the Do writes is the index the drawn object has
\* in the embedded-object table.
C12_LastPassObjectAndMask ==
    [][\A mode \in SoftMaskModes : DrewOnContent(mode) =>
         LET D == FormOf(dev)
             S == FormOf(last'.recorded)
             buf == dev'.entries[dev'.fLastContentEntry].fContent
             n == Len(buf)
             mask == dev'.fGraphicStateResources[buf[n - 2].n + 1]
             drawn == dev'.fXObjectResources[buf[n - 1].n + 1]
         IN /\ dev'.fLastContentEntry # NULL
            /\ n >= 3
            /\ buf[n - 2].op = "gs" /\ buf[n - 1].op = "Do" /\ buf[n].op = "gs"
            /\ mask.kind = "smask"
            /\ dev'.fGraphicStateResources[buf[n].n + 1] = getNoSMaskGraphicState
            /\ IF mode \in {"SrcIn", "SrcOut"}
               THEN drawn = S /\ mask.mask = D
               ELSE drawn = D /\ mask.mask = S
            /\ mask.invert = (mode \in {"SrcOut", "DstOut"})
      ]_vars

\* a destination-out drawRect on a device that held a rectangle: the table of
\* embedded objects holds the destination only and the last mask inverts
C12_Witness ==
    /\ nCalls = 2
    /\ last.op = "drawRect" /\ last.mode = "DstOut"
    /\ last.wrote # <<>>
    /\ Len(dev.fXObjectResources) = 1
    /\ dev.fLastContentEntry # NULL
    /\ Len(dev.entries[dev.fLastContentEntry].fContent) = 6
    /\ \E k \in 1..Len(dev.fGraphicStateResources) :
          /\ dev.fGraphicStateResources[k].kind = "smask"
          /\ dev.fGraphicStateResources[k].mask = FormOf(last.recorded)

\* the Do instructions in the buffers of the chain of d
DoCount(d) == CountOp(Buffers(d, Chain(d)), "Do")

\* C13: after a draw in one of the four soft-mask modes that recorded content
\* on a device that held content, the chain holds the two soft-mask passes
\* (two Do instructions, each between a mask state and its reset) and every
\* entry that holds instructions captured the device's inherited clip chain
\* and clip region and the identity transform, whatever the clip and the
\* transform of the draw were.
C13_PassesInInheritedClip ==
    [][\A mode \in SoftMaskModes : DrewOnContent(mode) =>
         /\ DoCount(dev') = 2
         /\ CountOp(Buffers(dev', Chain(dev')), "gs") = 4
         /\ \A i \in 1..Len(Chain(dev')) :
               LET e == dev'.entries[Chain(dev')[i]] IN
               e.fContent # <<>> =>
                  /\ \A k \in 1..Len(e.fContent) : e.fContent[k].op \in {"gs", "Do"}
                  /\ e.fState.fClipStack = fExistingClipStack
                  /\ e.fState.fClipRegion = fExistingClipRegion
                  /\ e.fState.fMatrix = "I"
      ]_vars

\* a destination-in drawRect under a clip and a transform of its own on a
\* device that held a rectangle
C13_Witness ==
    /\ nCalls = 2
    /\ last.op = "drawRect" /\ last.mode = "DstIn"
    /\ last.wrote # <<>>
    /\ last.state.fMatrix = "M1"
    /\ last.state.fClipStack = <<StepA, StepB>>
    /\ Chain(dev) = <<1>>
    /\ dev.entries[1].fState.fMatrix = "I"
    /\ dev.entries[1].fState.fClipStack = fExistingClipStack
    /\ DoCount(dev) = 2

\* the call has returned from a draw in `mode` under a clip region that is
\* not empty on a device that held content
ReturnedOnContent(mode) ==
    /\ IsCallStep
    /\ last'.mode = mode
    /\ ~last'.emptyClip
    /\ ~isContentEmpty(dev)
    /\ dev'.status = "ok"

\* the form object x is what a device paints under the clip `clip`: one
\* instruction that paints, under the clip instructions of the clip
IsMaskOfClip(x, clip) ==
    /\ x.kind = "form"
    /\ SelectSeq(x.content, IsContentTok) = <<Tok("paint", last'.recorded.call, "page")>>
    /\ SelectSeq(x.content, IsClipTok)
         = clipInstructions(fExistingClipStack,
                            resolveClipStack(clip.stack, clip.region), clip.region)

\* the chain of dev' starts with the former content of dev, held in one
\* embedded object and redrawn under an inverted soft mask of the clip of the
\* call
ErasedInClip ==
    LET D == FormOf(dev)
        IsD(x) == x = D
        bufs == Buffers(dev', Chain(dev'))
    IN /\ Len(bufs) >= 3
       /\ bufs[1].op = "gs" /\ bufs[2].op = "Do" /\ bufs[3].op = "gs"
       /\ LET mask == dev'.fGraphicStateResources[bufs[1].n + 1] IN
             /\ mask.kind = "smask"
             /\ mask.invert
             /\ IsMaskOfClip(mask.mask, last'.clip)
       /\ dev'.fXObjectResources[bufs[2].n + 1] = D
       /\ Cardinality(Holding(dev'.fXObjectResources, IsD)) = 1
       /\ dev'.fGraphicStateResources[bufs[3].n + 1] = getNoSMaskGraphicState

\* after the erase the call got the tail of the chain as its entry and its
\* instructions are all that follows the redrawn content
DrawnAfterErase ==
    /\ last'.entry # NULL
    /\ last'.entry = dev'.fLastContentEntry
    /\ last'.wrote # <<>>
    /\ SubSeq(Buffers(dev', Chain(dev')), 4, Len(Buffers(dev', Chain(dev'))))
         = last'.wrote

\* C14 as stated: a draw in clear mode or in source mode, with a clip region
\* that is not empty, on a device that holds content: the former content is
\* flushed into one embedded object and redrawn under an inverted soft mask
\* of the clip of the call, then the call gets an entry that follows the
\* redrawn content and receives the instructions of the draw.
C14_ClearAndSrcEraseThenDraw ==
    [][\A mode \in {"Clear", "Src"} :
          ReturnedOnContent(mode) => ErasedInClip /\ DrawnAfterErase]_vars

\* C14 amended: both modes erase as stated; a source draw then gets an entry
\* that follows the redrawn content and receives its instructions; a clear
\* draw gets no entry and records nothing, the redrawn content is all the
\* chain holds.
C14_SrcErasesThenDrawsClearOnlyErases ==
    [][\A mode \in {"Clear", "Src"} :
          ReturnedOnContent(mode) =>
             /\ ErasedInClip
             /\ IF mode = "Src"
                THEN DrawnAfterErase
                ELSE /\ last'.entry = NULL
                     /\ last'.wrote = <<>>
                     /\ Len(Buffers(dev', Chain(dev'))) = 3]_vars

\* a source drawRect under a clip of its own on a device that held a
\* rectangle: the redrawn content, then the rectangle in an entry of its own
C14_Witness ==
    /\ nCalls = 2
    /\ last.op = "drawRect" /\ last.mode = "Src"
    /\ last.clip = ClipB
    /\ Chain(dev) = <<1, 2>>
    /\ last.entry = 2
    /\ Len(dev.entries[1].fContent) = 3
    /\ dev.entries[2].fContent = <<Tok("re", 2, "Src")>>

\* the chain of d is null or its head holds no bytes
HeadEmpty(d) ==
    \/ d.fContentEntries = NULL
    \/ d.entries[d.fContentEntries].fContent = <<>>

\* dev' holds no embedded form object and no soft-mask state that dev did
\* not hold, and no object was made
NothingIsolated ==
    /\ dev'.nObj = dev.nObj
    /\ \A k \in 1..Len(dev'.fXObjectResources) :
          dev'.fXObjectResources[k].kind = "form" =>
             \E j \in 1..Len(dev.fXObjectResources) :
                dev.fXObjectResources[j] = dev'.fXObjectResources[k]
    /\ \A k \in 1..Len(dev'.fGraphicStateResources) :
          dev'.fGraphicStateResources[k].kind \in {"smask", "nosmask"} =>
             \E j \in 1..Len(dev.fGraphicStateResources) :
                dev.fGraphicStateResources[j] = dev'.fGraphicStateResources[k]

\* the buffers of dev' are those of dev, but for the entry of the call, which
\* got the instructions of the call at its end
OnlyCallRecorded ==
    \A e \in 1..Len(dev'.entries) :
        dev'.entries[e].fContent =
           (IF e <= Len(dev.entries) THEN dev.entries[e].fContent ELSE <<>>)
           \o (IF e = last'.entry THEN last'.wrote ELSE <<>>)

\* C15: a draw on a device that is empty (isContentEmpty() is true) makes no
\* embedded object and no soft-mask state: a clear or source draw erases
\* nothing (a clear draw records nothing, a source draw its own instructions
\* only), and a draw in one of the four soft-mask modes gets no entry and
\* leaves the device empty, with the chain and the four tables as they were.
C15_EmptyDeviceIsolatesNothing ==
    [][(IsCallStep /\ HeadEmpty(dev)
           /\ last'.mode \in SoftMaskModes \cup {"Clear", "Src"}) =>
         /\ NothingIsolated
         /\ Len(dev'.entries) >= Len(dev.entries)
         /\ OnlyCallRecorded
         /\ last'.mode = "Clear" => last'.entry = NULL /\ last'.wrote = <<>>
         /\ last'.mode \in SoftMaskModes =>
               /\ NothingRecorded
               /\ HeadEmpty(dev')
      ]_vars

\* a destination-in drawRect on a device whose only entry is empty: nothing
\* was isolated
C15_Witness ==
    /\ nCalls = 2
    /\ last.op = "drawRect" /\ last.mode = "DstIn" /\ ~last.emptyClip
    /\ last.entry = NULL
    /\ Chain(dev) = <<1>>
    /\ dev.entries[1].fContent = <<>>
    /\ dev.nObj = 0
    /\ dev.fXObjectResources = <<>>

\* the blend modes setUpContentEntry has no case for (lines 1194-1195)
UnsupportedModes == {"SrcATop", "DstATop", "Xor", "Plus"}

\* C16: a draw in a blend mode outside the supported set (source-atop,
\* destination-atop, xor, plus) gets no entry and appends no bytes: the
\* chain, the tail pointer and the tables are as they were; and the device
\* takes the calls that follow.
C16_UnsupportedModeIsNoOp ==
    [][(IsCallStep /\ last'.mode \in UnsupportedModes /\ ~last'.emptyClip) =>
         /\ NothingRecorded
         /\ dev'.status = "ok"
      ]_vars

\* C17: on every device a finite sequence of public draw calls leaves,
\* content() ends: following the next links from the head reaches null, and
\* the walk of content() copies no entry twice and, once it is over, has
\* copied every entry of the chain once.
C17_ContentWalkEnds ==
    /\ chainEnds(dev, dev.fContentEntries, 0)
    /\ pc # "hang"
    /\ NoDuplicates(walk.copied)
    /\ pc = "done" => walk.copied = Chain(dev)

\* C18: between public draw calls, a head entry that holds no bytes has no
\* successor and the SkASSERT of isContentEmpty has not failed; so
\* isContentEmpty() is true exactly when no entry of the chain holds bytes.
C18_EmptyHeadHasNoSuccessor ==
    pc = "record" =>
        /\ (dev.fContentEntries # NULL /\ HeadEmpty(dev))
              => dev.entries[dev.fContentEntries].fNext = NULL
        /\ "isContentEmpty: empty head has no successor" \notin dev.failed
        /\ isContentEmpty(dev)
              <=> \A i \in 1..Len(Chain(dev)) :
                     dev.entries[Chain(dev)[i]].fContent = <<>>

\* the entries of the chain of d
ChainEntries(d) == {Chain(d)[i] : i \in 1..Len(Chain(d))}

\* the call reaches the choice of an entry (lines 1203-1210) with the chain
\* as dev has it, and the tail of dev holds no bytes (a drawDevice of an
\* empty source device returns before it asks for an entry)
LinksOnEmptyTail ==
    /\ IsCallStep
    /\ IsOneDraw
    /\ ~last'.emptyClip
    /\ ~(last'.op = "drawDevice" /\ isContentEmpty(last'.device))
    /\ \/ last'.mode \in {"SrcOver", "DstOver"} \cup UnsupportedModes
       \/ last'.mode = "Src" /\ isContentEmpty(dev)
    /\ dev.fLastContentEntry # NULL
    /\ dev.entries[dev.fLastContentEntry].fContent = <<>>

\* C19: when setUpContentEntry comes to choose an entry while the tail holds
\* no bytes, it reuses the tail in every blend mode: no entry is allocated,
\* the entries of the chain and the tail pointer are as they were, the
\* state of the tail is the one captured for the new draw (its clip chain
\* and clip region are those of the call; a text draw then sets its font),
\* and the tail is the entry the call gets.
C19_EmptyTailReusedInPlace ==
    [][LinksOnEmptyTail =>
         /\ last'.entry = dev.fLastContentEntry
         /\ Len(dev'.entries) = Len(dev.entries)
         /\ ChainEntries(dev') = ChainEntries(dev)
         /\ dev'.fLastContentEntry = dev.fLastContentEntry
         /\ [dev'.entries[last'.entry].fState
                EXCEPT !.fFont = last'.state.fFont] = last'.state
         /\ last'.state.fClipStack
              = resolveClipStack(last'.clip.stack, last'.clip.region)
         /\ last'.state.fClipRegion = last'.clip.region
         /\ dev'.entries[last'.entry].fContent = last'.wrote
      ]_vars

\* a drawBitmap that wrote nothing, then a drawRect under another transform:
\* one entry, with the state and the rectangle of the second call
C19_Witness ==
    /\ nCalls = 2
    /\ last.op = "drawRect" /\ last.mode = "SrcOver"
    /\ last.state.fMatrix = "M1"
    /\ last.entry = 1
    /\ Len(dev.entries) = 1
    /\ dev.entries[1].fState.fMatrix = "M1"
    /\ dev.entries[1].fContent = <<Tok("re", 2, "SrcOver")>>

\* a destination-over call has linked a new entry as the head of the chain
NewHeadLinked ==
    /\ IsCallStep
    /\ last'.mode = "DstOver"
    /\ last'.entry = Len(dev.entries) + 1
    /\ Len(dev'.entries) = Len(dev.entries) + 1
    /\ dev'.fContentEntries = last'.entry

\* C20 as stated: when a destination-over draw links a new entry as the head
\* of the chain, the tail pointer stays only if the chain had been empty; on
\* a chain that had entries the call changes the tail pointer.
C20_TailStaysOnlyOnEmptyChain ==
    [][NewHeadLinked =>
         /\ dev'.fLastContentEntry = dev.fLastContentEntry
               => dev.fContentEntries = NULL
         /\ dev.fContentEntries # NULL
               => dev'.fLastContentEntry # dev.fLastContentEntry
      ]_vars

\* C20 amended: when a destination-over draw links a new entry as the head of
\* the chain, the tail pointer stays exactly if the chain had entries; on a
\* chain that had been empty the new entry becomes the tail as well.
C20_TailStaysUnlessChainWasEmpty ==
    [][NewHeadLinked =>
         IF dev.fContentEntries # NULL
         THEN dev'.fLastContentEntry = dev.fLastContentEntry
         ELSE /\ dev.fLastContentEntry = NULL
              /\ dev'.fLastContentEntry = last'.entry
      ]_vars

\* a destination-over drawRect after a source-over one: the new entry is the
\* head, the entry of the first call is still the tail
C20_Witness ==
    /\ nCalls = 2
    /\ last.op = "drawRect" /\ last.mode = "DstOver"
    /\ last.entry = 2
    /\ Chain(dev) = <<2, 1>>
    /\ dev.fLastContentEntry = 1
    /\ dev.entries[1].fContent # <<>>

\* the device r.d is in the empty recording state and the object r.xobject
\* holds the stream and the four tables of d
LeftEmptyWith(d, r) ==
    /\ r.d.fContentEntries = NULL
    /\ r.d.fLastContentEntry = NULL
    /\ r.d.entries = <<>>
    /\ r.d.fResourceDict = NoDict
    /\ Tables(r.d) = Tables(NewDevice)
    /\ isContentEmpty(r.d)
    /\ r.xobject.kind = "form"
    /\ r.xobject.content = content(d).stream
    /\ <<r.xobject.res.G, r.xobject.res.X, r.xobject.res.F, r.xobject.res.P>>
          = Tables(d)

\* createFormXObjectFromDevice has returned r on the device d
FormReturned(d, r) == r.d.status = "ok" => LeftEmptyWith(d, r)

\* C21: on every device a sequence of draw calls leaves, with its resource
\* dictionary cached or not, a createFormXObjectFromDevice that returns
\* leaves the entry chain, the tail pointer and the cached dictionary null
\* and the four tables empty, so that isContentEmpty() is true, and the
\* object it returns holds the stream and the resources of the device as
\* they were before the call.
C21_FormLeavesDeviceEmpty ==
    (pc = "record" /\ dev.status = "ok") =>
        /\ FormReturned(dev, createFormXObjectFromDevice(dev))
        /\ FormReturned(getResourceDict(dev),
                        createFormXObjectFromDevice(getResourceDict(dev)))

\* a device holding a text draw, with its dictionary cached: the form object
\* gets the stream and the font, the device is left with neither
C21_Witness ==
    /\ pc = "record" /\ dev.status = "ok"
    /\ last.op = "drawText" /\ last.wrote # <<>>
    /\ dev.fFontResources # <<>>
    /\ getResourceDict(dev).fResourceDict.valid
    /\ getResourceDict(dev).fResourceDict.F = 1
    /\ createFormXObjectFromDevice(getResourceDict(dev)).d.status = "ok"
    /\ createFormXObjectFromDevice(getResourceDict(dev)).d.fResourceDict = NoDict
    /\ createFormXObjectFromDevice(getResourceDict(dev)).d.fFontResources = <<>>
    /\ createFormXObjectFromDevice(getResourceDict(dev)).xobject.res.F # <<>>
    /\ CountOp(createFormXObjectFromDevice(getResourceDict(dev)).xobject.content, "Tj") > 0

\* the last call was a drawDevice that embedded its source device
EmbeddedSource ==
    /\ last.op = "drawDevice"
    /\ last.entry # NULL
    /\ dev.status = "ok"
    /\ CountOp(last.wrote, "Do") = 1

\* C22: after drawDevice has embedded a source device that was not empty,
\* the source device is in the empty recording state: isContentEmpty() is
\* true, its entry chain and its four tables are empty.
C22_SourceResetAfterDrawDevice ==
    EmbeddedSource =>
        /\ isContentEmpty(last.device)
        /\ last.device.fContentEntries = NULL
        /\ last.device.fLastContentEntry = NULL
        /\ Tables(last.device) = Tables(NewDevice)

\* C23: when the shader of the paint gives no pattern object and reports
\* itself as a shader of one colour c, the state captured for the draw has
\* no pattern (index -1) and the fill colour c made opaque, the pattern table
\* is as it was, and the extended-state object the state refers to is the
\* one of c, not the one of the paint's own colour.
C23_ColorShaderIsFlatColor ==
    [][(IsCallStep /\ last'.paint.shader.kind = "color" /\ last'.entry # NULL) =>
         /\ last'.state.fShaderIndex = -1
         /\ last'.state.fColor = SkColorSetA(last'.paint.shader.color, 255)
         /\ dev'.fShaderResources = dev.fShaderResources
         /\ dev'.fGraphicStateResources[last'.state.fGraphicStateIndex + 1]
              = getGraphicStateForPaint(
                    [last'.paint EXCEPT !.color = last'.paint.shader.color])
      ]_vars

\* the last call was a drawBitmap that made no image: CreateImage failed, or
\* the source rectangle does not intersect the bitmap
NoImageDrawn ==
    /\ IsCallStep
    /\ last'.op = "drawBitmap"
    /\ last'.bitmap.miss \/ ~last'.bitmap.ok

\* C24: a drawBitmap that makes no image contributes nothing, in every blend
\* mode: the entry chain, the buffer of every entry, the four tables and the
\* stream content() gives are after the call what they were before it.
C24_FailedBitmapContributesNothing ==
    [][NoImageDrawn =>
         /\ dev'.fContentEntries = dev.fContentEntries
         /\ dev'.fLastContentEntry = dev.fLastContentEntry
         /\ Chain(dev') = Chain(dev)
         /\ Buffers(dev', Chain(dev')) = Buffers(dev, Chain(dev))
         /\ Tables(dev') = Tables(dev)
         /\ content(dev').stream = content(dev).stream
      ]_vars

\* C25: frame 0 of the emitter holds the inherited clip chain and the
\* identity transform at every moment of the emitter's life, and no pop has
\* run at depth 0: what updateClip and updateMatrix write of clips and
\* transforms goes into frames at depth 1 or more.
C25_FrameZeroKept ==
    /\ gsState.fEntries[0].fClipStack = fExistingClipStack
    /\ gsState.fEntries[0].fClipRegion = fExistingClipRegion
    /\ gsState.fEntries[0].fMatrix = "I"
    /\ "pop: fStackDepth > 0" \notin gsState.failed
    /\ "updateMatrix: fStackDepth > 0" \notin gsState.failed

\* a transform, then another clip: the frame of the transform was popped
\* down to frame 0, and the clip went into a new frame 1
C25_Witness ==
    /\ last.op = "updateClip"
    /\ last.prev.op = "updateMatrix"
    /\ last.prev.arg.fMatrix = "M1"
    /\ last.arg.fClipStack = <<StepA, StepB>>
    /\ SelectSeq(Written, LAMBDA t : t.op \in {"q", "Q"})
          = <<Tok("Q", -1, ""), Tok("q", -1, "")>>
    /\ gsState.fStackDepth = 1
    /\ gsState.fEntries[1].fClipStack = <<StepA, StepB>>
    /\ gsState.fEntries[0].fClipStack = <<StepA>>

\* the captured states the device holds, and the one of the last call
StatesHeld ==
    {dev.entries[i].fState : i \in 1..Len(dev.entries)} \cup {last.state}

\* the two states differ in a field compareInitialState is said to look at
DifferInComparedField(a, b) ==
    \/ ~SameCaptured(a, b)
    \/ /\ a.fTextScaleX # 0
       /\ b.fTextScaleX # 0
       /\ (a.fTextScaleX # b.fTextScaleX \/ a.fTextFill # b.fTextFill)

\* C26: of any two captured states the device holds, compareInitialState
\* is true exactly when they differ in none of colour, pattern index,
\* extended-state index, transform, clip chain and, when both text scales
\* are non-zero, text scale and text fill mode; giving one of them another
\* resolved clip region, font or text size does not change the answer.
C26_ComparedFieldsOnly ==
    pc = "record" =>
        \A a, b \in StatesHeld :
            /\ compareInitialState(a, b) <=> ~DifferInComparedField(a, b)
            /\ \A r \in {b.fClipRegion, EmptyRegion}, f \in {b.fFont, "default"},
                  z \in {b.fTextSize, 12} :
                  compareInitialState(
                      [a EXCEPT !.fClipRegion = r, !.fFont = f, !.fTextSize = z], b)
                    <=> compareInitialState(a, b)

\* a rectangle and then text of the same paint: one entry, whose state has
\* text scale zero and whose font was set by the text draw; the state the
\* text draw captured has text scale 1 and no font, and compares equal
C26_Witness ==
    /\ nCalls = 2
    /\ last.op = "drawText"
    /\ Len(dev.entries) = 1
    /\ last.entry = 1
    /\ dev.entries[1].fState.fTextScaleX = 0
    /\ last.state.fTextScaleX = 1
    /\ dev.entries[1].fState.fFont # last.state.fFont
    /\ compareInitialState(dev.entries[1].fState, last.state)

\* C27: an updateMatrix(M) call with M other than the transform of the
\* current frame writes one restore exactly if that transform is not the
\* identity, then one save and one concatenate of M exactly if M is not the
\* identity, and nothing else; after it the transform of the current frame
\* is M.
C27_UpdateMatrixPopsThenPushes ==
    [][(/\ last'.op = "updateMatrix"
        /\ nCalls' = nCalls + 1
        /\ last'.arg.fMatrix # currentEntry(gsState).fMatrix) =>
         /\ SubSeq(gsState'.out, Len(gsState.out) + 1, Len(gsState'.out))
              = (IF currentEntry(gsState).fMatrix # "I"
                 THEN <<Tok("Q", -1, "")>> ELSE <<>>)
                \o (IF last'.arg.fMatrix # "I"
                    THEN <<Tok("q", -1, ""), Tok("cm", -1, last'.arg.fMatrix)>>
                    ELSE <<>>)
         /\ currentEntry(gsState').fMatrix = last'.arg.fMatrix
      ]_vars

\* M1 and then M2: the second call restored, saved and concatenated M2
C27_Witness ==
    /\ last.op = "updateMatrix"
    /\ last.prev.op = "updateMatrix"
    /\ last.prev.arg.fMatrix = "M1"
    /\ last.arg.fMatrix = "M2"
    /\ Written = <<Tok("Q", -1, ""), Tok("q", -1, ""), Tok("cm", -1, "M2")>>
    /\ gsState.fStackDepth = 1
    /\ currentEntry(gsState).fMatrix = "M2"

\* the depths below the current one whose frame holds the chain clipStack
MatchingBelow(g, clipStack) ==
    {j \in 0..(g.fStackDepth - 1) : g.fEntries[j].fClipStack = clipStack}

\* n restores
Restores(n) == [i \in 1..n |-> Tok("Q", -1, "")]

\* C28: an updateClip(C) call with C other than the chain of the current
\* frame restores frame by frame.  If a frame below holds C, it stops at the
\* first such frame and writes nothing but the restores.  If none does, it
\* restores down to depth 0, saves once, writes clip instructions and
\* nothing else, and ends at depth 1 with C and its region in the current
\* frame.
C28_UpdateClipPopsToMatchOrPushes ==
    [][(/\ last'.op = "updateClip"
        /\ nCalls' = nCalls + 1
        /\ last'.arg.fClipStack # currentEntry(gsState).fClipStack) =>
         LET C == last'.arg.fClipStack
             written == SubSeq(gsState'.out, Len(gsState.out) + 1,
                               Len(gsState'.out))
             below == MatchingBelow(gsState, C)
             depth == gsState.fStackDepth
         IN IF below # {}
            THEN /\ gsState'.fStackDepth \in below
                 /\ \A j \in below : j <= gsState'.fStackDepth
                 /\ written = Restores(depth - gsState'.fStackDepth)
                 /\ gsState'.fEntries = gsState.fEntries
            ELSE /\ SubSeq(written, 1, depth + 1)
                      = Restores(depth) \o <<Tok("q", -1, "")>>
                 /\ Len(written) > depth + 1
                 /\ \A i \in (depth + 2)..Len(written) : IsClipTok(written[i])
                 /\ gsState'.fStackDepth = 1
                 /\ currentEntry(gsState').fClipStack = C
                 /\ currentEntry(gsState').fClipRegion = RegionOf(C)
      ]_vars

\* an entry under [A, B, C] and M1 (depth 2), then updateClip([A, D]): two
\* restores, one save, the clip
C28_Witness ==
    /\ last.op = "updateClip"
    /\ last.prev.op = "entry"
    /\ last.prev.arg.fClipStack = <<StepA, StepB, StepC>>
    /\ last.prev.arg.fMatrix = "M1"
    /\ last.arg.fClipStack = <<StepA, StepD>>
    /\ Written = <<Tok("Q", -1, ""), Tok("Q", -1, ""), Tok("q", -1, ""),
                   Tok("W-region", -1, "boundary")>>
    /\ gsState.fStackDepth = 1

\* the instruction tok if cond holds, nothing otherwise
Emitted(cond, tok) == IF cond THEN <<tok>> ELSE <<>>

\* C29: an updateDrawingState call writes, in this order and each only when
\* the target differs from what the current frame remembers: the fill source
\* (the pattern, or the flat colour, which is also written when the frame
\* remembers a pattern), the extended state, and, only for a target text
\* scale other than zero, the text scale and the text fill mode.  It writes
\* no save and no restore and leaves the stack depth as it is.
C29_DrawingStateInFixedOrder ==
    [][(last'.op = "updateDrawingState" /\ nCalls' = nCalls + 1) =>
         LET S == last'.arg
             cur == currentEntry(gsState)
         IN /\ SubSeq(gsState'.out, Len(gsState.out) + 1, Len(gsState'.out))
                 = Emitted(S.fShaderIndex >= 0
                             /\ S.fShaderIndex # cur.fShaderIndex,
                           Tok("scn", S.fShaderIndex, ""))
                   \o Emitted(S.fShaderIndex < 0
                                /\ (S.fColor # cur.fColor
                                      \/ cur.fShaderIndex >= 0),
                              Tok("rg", -1, S.fColor.rgb))
                   \o Emitted(S.fGraphicStateIndex # cur.fGraphicStateIndex,
                              Tok("gs", S.fGraphicStateIndex, ""))
                   \o Emitted(S.fTextScaleX # 0
                                /\ S.fTextScaleX # cur.fTextScaleX,
                              Tok("Tz", S.fTextScaleX, ""))
                   \o Emitted(S.fTextScaleX # 0 /\ S.fTextFill # cur.fTextFill,
                              Tok("Tr", S.fTextFill, ""))
            /\ gsState'.fStackDepth = gsState.fStackDepth
      ]_vars

\* a red stroked text state of scale 2 on a new emitter: colour, extended
\* state, text scale, text fill mode
C29_Witness ==
    /\ last.op = "updateDrawingState"
    /\ nCalls = 1
    /\ Written = <<Tok("rg", -1, "red"), Tok("gs", 1, ""), Tok("Tz", 2, ""),
                   Tok("Tr", kStroke_Style, "")>>
    /\ gsState.fStackDepth = 0

\* C30: a draw call in clear mode, whether or not it erased content first,
\* gets no entry and writes nothing: no buffer of the device holds an
\* instruction drawn by the call.
C30_ClearRecordsNoSource ==
    [][(IsCallStep /\ last'.mode = "Clear") =>
         /\ last'.entry = NULL
         /\ last'.wrote = <<>>
         /\ \A e \in 1..Len(dev'.entries) :
               \A i \in 1..Len(dev'.entries[e].fContent) :
                  dev'.entries[e].fContent[i].op \in {"re", "Tj", "paint"}
                     => dev'.entries[e].fContent[i].n # nCalls'
      ]_vars

\* a clear drawRect on a device that held a rectangle: the rectangle was
\* flushed into an embedded object and redrawn, the call got no entry
C30_Witness ==
    /\ nCalls = 2
    /\ last.op = "drawRect"
    /\ last.mode = "Clear" /\ ~last.emptyClip
    /\ last.entry = NULL
    /\ dev.status = "ok"
    /\ dev.fXObjectResources # <<>>
    /\ CountOp(Buffers(dev, Chain(dev)), "Do") = 1
    /\ CountOp(Buffers(dev, Chain(dev)), "re") = 0

\* C31: in every state of an emitter, whatever calls of updateClip,
\* updateMatrix and updateDrawingState led to it: when the current frame has
\* a transform other than the identity, the depth is at least 1, the frame
\* below holds the same clip chain and the identity transform; none of the
\* three SkASSERTs of updateMatrix has failed.
C31_MatrixFrameOverCleanFrame ==
    /\ currentEntry(gsState).fMatrix # "I" =>
          /\ gsState.fStackDepth >= 1
          /\ gsState.fEntries[gsState.fStackDepth].fClipStack
               = gsState.fEntries[gsState.fStackDepth - 1].fClipStack
          /\ gsState.fEntries[gsState.fStackDepth - 1].fMatrix = "I"
    /\ gsState.failed \cap {"updateMatrix: fStackDepth > 0",
                            "updateMatrix: same clip below",
                            "updateMatrix: identity below"} = {}

\* an entry under [A, B, C] and M1, then updateMatrix(M2): the frame of M1
\* was popped and a frame of M2 saved, over the frame of [A, B, C]
C31_Witness ==
    /\ last.op = "updateMatrix"
    /\ last.prev.op = "entry"
    /\ last.prev.arg.fClipStack = <<StepA, StepB, StepC>>
    /\ last.prev.arg.fMatrix = "M1"
    /\ last.arg.fMatrix = "M2"
    /\ Written = <<Tok("Q", -1, ""), Tok("q", -1, ""), Tok("cm", -1, "M2")>>
    /\ gsState.fStackDepth = 2
    /\ gsState.fEntries[2].fClipStack = <<StepA, StepB, StepC>>
    /\ gsState.fEntries[1].fClipStack = <<StepA, StepB, StepC>>
    /\ gsState.fEntries[1].fMatrix = "I"

\* C32: whenever finishContentEntry runs as a public draw call ends, the
\* isolated destination is non-null exactly when the blend mode is one of
\* SrcIn, DstIn, SrcOut, DstOut (the SkASSERTs on dst never fail), and then
\* the chain it runs on is not null and its head has no successor (the
\* SkASSERT on fNext never fails); the draws finishContentEntry itself
\* issues (drawFormXObjectWithClip, the erase of the clip) end the same way.
C32_FinishAssertionsHold ==
    /\ dev.failed \cap {"finishContentEntry: !dst",
                        "finishContentEntry: dst",
                        "finishContentEntry: head has no successor"} = {}
    /\ (last.entry # NULL /\ last.mode \in SoftMaskModes) =>
          /\ last.recorded.fContentEntries # NULL
          /\ last.recorded.entries[last.recorded.fContentEntries].fNext = NULL

\* a source-in drawText of underlined text on a device that held a
\* rectangle: the drawRect of the underline flushed the entry of the text
\* and finished first; the accessor of the text was destroyed on the chain
\* that finish left, one entry holding the two masked draws of the underline
C32_Witness ==
    /\ nCalls = 2
    /\ last.op = "drawText" /\ last.mode = "SrcIn"
    /\ last.paint.underline
    /\ last.entry # NULL
    /\ CountOp(last.wrote, "Tj") = 1
    /\ Chain(last.recorded) = <<1>>
    /\ [k \in 1..Len(last.recorded.entries[1].fContent) |->
           last.recorded.entries[1].fContent[k].op]
          = <<"gs", "Do", "gs", "gs", "Do", "gs">>
    /\ dev.status = "ok"
    /\ Chain(dev) = <<1>>

\* C33: populateGraphicStateEntryFromPaint is never reached with a paint
\* that carries a path effect: every public draw operation resolves or
\* removes the path effect before it acquires an entry, so the
\* SkASSERT(paint.getPathEffect() == NULL) never fails.
C33_NoPathEffectReachesPopulate ==
    "populate: paint.getPathEffect() == NULL" \notin dev.failed

\* drawRect is one that does: a drawRect with a path effect acquires its
\* entry with the effect removed
C33_RectResolvesPathEffect ==
    [][(IsCallStep /\ last'.op = "drawRect" /\ last'.paint.pathEffect) =>
          dev'.failed \ dev.failed
             # {"populate: paint.getPathEffect() == NULL"}]_vars

\* C34: whatever entries content() has put through the emitter, the depth
\* of its stack of frames is at most 2 (a clip frame and a transform frame
\* on it), so the SkASSERT(fStackDepth < kMaxStackDepth) of push() has not
\* failed.
C34_StackDepthAtMostTwo ==
    /\ gsState.fStackDepth <= 2
    /\ "push: fStackDepth < kMaxStackDepth" \notin gsState.failed

\* the second of two entries with clips and transforms of their own: the two
\* frames of the first were restored and two were saved again
C34_Witness ==
    /\ last.op = "entry"
    /\ last.prev.op = "entry"
    /\ last.prev.arg.fClipStack = <<StepA, StepB, StepC>>
    /\ last.prev.arg.fMatrix = "M1"
    /\ last.arg.fClipStack = <<StepA, StepD>>
    /\ last.arg.fMatrix = "M1"
    /\ SelectSeq(Written, LAMBDA t : t.op \in {"q", "Q"})
          = <<Tok("Q", -1, ""), Tok("Q", -1, ""), Tok("q", -1, ""), Tok("q", -1, "")>>
    /\ gsState.fStackDepth = 2

\* C35: after any sequence of public draw calls the chain of entries is a
\* finite list without cycle; the tail pointer is null exactly when the head
\* is null, and otherwise is the last entry reached from the head, whose
\* fNext is null.
C35_ChainIsListEndingAtTail ==
    pc = "record" =>
        /\ chainEnds(dev, dev.fContentEntries, 0)
        /\ dev.fLastContentEntry = NULL <=> dev.fContentEntries = NULL
        /\ dev.fContentEntries # NULL =>
              /\ dev.fLastContentEntry = Chain(dev)[Len(Chain(dev))]
              /\ dev.entries[dev.fLastContentEntry].fNext = NULL

\* The text state of the page description format as a stream is executed:
\* q saves the state in effect and Q restores it, Tz sets the horizontal
\* scale (in units of 100%) and Tr the fill mode; a page starts at 100% and
\* fill.  The stack of text states after the first k instructions of out.
RECURSIVE TextStates(_, _)
TextStates(out, k) ==
    IF k = 0 THEN <<[scale |-> 1, fill |-> kFill_Style]>>
    ELSE LET before == TextStates(out, k - 1)
             depth == Len(before)
         IN CASE out[k].op = "q" -> Append(before, before[depth])
              [] out[k].op = "Q" /\ depth > 1 -> SubSeq(before, 1, depth - 1)
              [] out[k].op = "Tz" -> [before EXCEPT ![depth].scale = out[k].n]
              [] out[k].op = "Tr" -> [before EXCEPT ![depth].fill = out[k].n]
              [] OTHER -> before

\* the text state in effect when instruction k of out is executed
TextStateAt(out, k) == TextStates(out, k - 1)[Len(TextStates(out, k - 1))]

\* C36: for a text draw with a scale s that is not zero and a fill mode f
\* that recorded glyph instructions, in the stream content() returns the
\* text scale and the fill mode in effect when those glyphs are executed
\* are s and f, also when the draw was merged into an entry that a draw
\* without text created.
C36_GlyphsUnderTheirTextState ==
    (/\ pc = "done"
     /\ last.op = "drawText"
     /\ last.paint.textScaleX # 0)
    => \A k \in 1..Len(gsState.out) :
          (gsState.out[k].op = "Tj" /\ gsState.out[k].n = nCalls) =>
             /\ TextStateAt(gsState.out, k).scale = last.paint.textScaleX
             /\ TextStateAt(gsState.out, k).fill = last.paint.style

\* The graphics state of the page description format as a stream is
\* executed: q saves the state in effect and Q restores it, cm concatenates
\* a transform to the current one and a clip instruction intersects the
\* current clip with a shape; neither can be undone but by Q.  The stack of
\* states after the first k instructions of out, a state being the
\* transforms concatenated and the shapes intersected so far.
RECURSIVE GraphicsStates(_, _)
GraphicsStates(out, k) ==
    IF k = 0 THEN <<[ctm |-> <<>>, clip |-> <<>>]>>
    ELSE LET before == GraphicsStates(out, k - 1)
             depth == Len(before)
         IN CASE out[k].op = "q" -> Append(before, before[depth])
              [] out[k].op = "Q" /\ depth > 1 -> SubSeq(before, 1, depth - 1)
              [] out[k].op = "cm" ->
                    [before EXCEPT ![depth].ctm = Append(@, out[k])]
              [] IsClipTok(out[k]) ->
                    [before EXCEPT ![depth].clip = Append(@, out[k])]
              [] OTHER -> before

\* the graphics state in effect after all of out
GraphicsStateAfter(out) ==
    GraphicsStates(out, Len(out))[Len(GraphicsStates(out, Len(out)))]

\* C37: executed with the save/restore, concatenate-only and intersect-only
\* semantics of the format, the stream of content() has, where the buffered
\* instructions of an entry execute, the initial transform composed with
\* the captured transform of that entry and no other as transform, and the
\* inherited clip intersected with the clip written for the chain of that
\* entry and no other as clip.
C37_EntryRunsUnderItsTransformAndClip ==
    (pc = "content" /\ walk.copied # <<>>) =>
        LET entry == dev.entries[walk.copied[Len(walk.copied)]] IN
        /\ GraphicsStateAfter(gsState.out).ctm
              = contentBegin(dev).out
                \o (IF entry.fState.fMatrix = "I" THEN <<>>
                    ELSE <<Tok("cm", -1, entry.fState.fMatrix)>>)
        /\ GraphicsStateAfter(gsState.out).clip
              = clipInstructions(fExistingClipStack, entry.fState.fClipStack,
                                 entry.fState.fClipRegion)

\* the walk has copied an entry under the inherited clip after an entry
\* under a clip and a transform of its own: the two frames of the first
\* were restored
C37_Witness ==
    /\ pc = "content"
    /\ Len(walk.copied) = 2
    /\ dev.entries[walk.copied[1]].fState.fClipStack = <<StepA, StepB>>
    /\ dev.entries[walk.copied[1]].fState.fMatrix = "M1"
    /\ dev.entries[walk.copied[2]].fState.fClipStack = fExistingClipStack
    /\ dev.entries[walk.copied[2]].fState.fMatrix = "I"
    /\ dev.entries[walk.copied[2]].fContent # <<>>
    /\ CountOp(gsState.out, "Q") = 2
    /\ GraphicsStateAfter(gsState.out).clip = <<>>

\* instruction k of buf applies an extended state of `kind` of the table G
AppliesKind(buf, k, G, kind) ==
    /\ buf[k].op = "gs"
    /\ buf[k].n + 1 \in 1..Len(G)
    /\ G[buf[k].n + 1].kind = kind

\* in buf every instruction that applies a soft-mask state is followed by
\* one draw of an embedded object and then by the state without soft mask
MaskedDrawsClosed(buf, G) ==
    \A k \in 1..Len(buf) :
        AppliesKind(buf, k, G, "smask") =>
            /\ k + 2 <= Len(buf)
            /\ buf[k + 1].op = "Do"
            /\ AppliesKind(buf, k + 2, G, "nosmask")

\* C38: in every content buffer (of an entry of the device, and of a form
\* object made of earlier content), each instruction that applies a
\* soft-mask extended state is followed by exactly one draw of an embedded
\* object and then by the instruction that applies the extended state
\* without soft mask.
C38_SoftMaskClosedAfterOneDraw ==
    /\ \A e \in 1..Len(dev.entries) :
          MaskedDrawsClosed(dev.entries[e].fContent, dev.fGraphicStateResources)
    /\ \A x \in 1..Len(dev.fXObjectResources) :
          MaskedDrawsClosed(dev.fXObjectResources[x].content,
                            dev.fXObjectResources[x].res.G)

\* a destination-out drawRect on a device that held a rectangle: the entry
\* of the device holds the destination under the mask of the clip and then
\* under the mask of the source, each between a soft-mask state and its
\* reset
C38_Witness ==
    /\ nCalls = 2
    /\ last.op = "drawRect" /\ last.mode = "DstOut"
    /\ Chain(dev) = <<1>>
    /\ [k \in 1..Len(dev.entries[1].fContent) |-> dev.entries[1].fContent[k].op]
          = <<"gs", "Do", "gs", "gs", "Do", "gs">>
    /\ AppliesKind(dev.entries[1].fContent, 1, dev.fGraphicStateResources, "smask")
    /\ AppliesKind(dev.entries[1].fContent, 4, dev.fGraphicStateResources, "smask")

\* n is an index of table
IsIndexOf(n, table) == n \in 0..(Len(table) - 1)

\* every index an entry of d holds, in its captured state or in an
\* instruction of its buffer, is an index of the table of d it refers to
ValidIndexes(d) ==
    \A e \in 1..Len(d.entries) :
        /\ d.entries[e].fState.fShaderIndex >= 0
              => IsIndexOf(d.entries[e].fState.fShaderIndex, d.fShaderResources)
        /\ IsIndexOf(d.entries[e].fState.fGraphicStateIndex, d.fGraphicStateResources)
        /\ \A k \in 1..Len(d.entries[e].fContent) :
              LET t == d.entries[e].fContent[k] IN
              /\ t.op = "gs" => IsIndexOf(t.n, d.fGraphicStateResources)
              /\ t.op = "Do" => IsIndexOf(t.n, d.fXObjectResources)
              /\ t.op = "Tf" => IsIndexOf(t.n, d.fFontResources)

IsPrefixOf(a, b) == Len(a) <= Len(b) /\ SubSeq(b, 1, Len(a)) = a

\* the call left every object at its index and every entry in its place:
\* the tables and the buffers only grew, and the captured state of an entry
\* that held instructions kept its indexes
IndexesKept ==
    /\ \A t \in 1..4 : IsPrefixOf(Tables(dev)[t], Tables(dev')[t])
    /\ Len(dev.entries) <= Len(dev'.entries)
    /\ \A e \in 1..Len(dev.entries) :
          /\ IsPrefixOf(dev.entries[e].fContent, dev'.entries[e].fContent)
          /\ dev.entries[e].fContent # <<>> =>
                /\ dev'.entries[e].fState.fShaderIndex
                     = dev.entries[e].fState.fShaderIndex
                /\ dev'.entries[e].fState.fGraphicStateIndex
                     = dev.entries[e].fState.fGraphicStateIndex

\* the objects a resource record holds: its embedded objects and the masks
\* of its extended states
ObjectsOf(res) ==
    {res.X[i] : i \in 1..Len(res.X)} \cup {res.G[i].mask : i \in 1..Len(res.G)}

\* a form object made of the content `stream` with the resources `res` is
\* held in `holder`, directly or in the resources of a form object it holds
RECURSIVE HoldsFormOf(_, _, _, _)
HoldsFormOf(holder, stream, res, fuel) ==
    \E x \in ObjectsOf(holder) :
        /\ x.kind = "form"
        /\ \/ (x.content = stream /\ x.res = res)
           \/ (fuel > 0 /\ HoldsFormOf(x.res, stream, res, fuel - 1))

\* the four tables of d as a form object carries them
ResourcesOf(d) ==
    [G |-> d.fGraphicStateResources, X |-> d.fXObjectResources,
     F |-> d.fFontResources, P |-> d.fShaderResources]

\* the call moved the whole chain of dev, with the tables its indexes refer
\* to, into a form object that dev' holds
ChainMovedIntoForm ==
    HoldsFormOf(ResourcesOf(dev'), content(dev).stream, ResourcesOf(dev), 2 * MaxDraws + 2)

\* C39: between public draw calls every resource index an entry holds, in
\* its captured state (pattern, extended state) or in an instruction of its
\* buffer (gs, Do, Tf), is an index of the table of the device it refers
\* to, and it denotes the object it denoted when it was recorded: a call
\* either leaves every object at its index and every entry in its place, or
\* empties the tables together with the whole chain, which it moved into a
\* form object with those tables.
C39_IndexesStayValid ==
    /\ [](pc = "record" => ValidIndexes(dev))
    /\ [][(IsCallStep /\ dev'.status = "ok")
            => (IndexesKept \/ ChainMovedIntoForm)]_vars

\* a source-in drawRect on a device that held text: the tables were emptied
\* and filled again, the text and its font went into a form object
C39_Witness ==
    /\ nCalls = 2
    /\ last.op = "drawRect" /\ last.mode = "SrcIn"
    /\ last.entry # NULL
    /\ dev.status = "ok"
    /\ dev.fFontResources = <<>>
    /\ Len(dev.fXObjectResources) = 2
    /\ dev.fXObjectResources[1].res.F # <<>>
    /\ CountOp(dev.fXObjectResources[1].content, "Tf") = 1
    /\ CountOp(Buffers(dev, Chain(dev)), "Do") = 2

\* C40: the dictionary getResourceDict() returns names every resource the
\* four tables hold when it is called (G0.., X0.., F0.., P0.., one name per
\* index), also the resources that draw calls registered after an earlier
\* call of getResourceDict().
C40_DictNamesEveryResource ==
    pc = "record" =>
        /\ getResourceDict(dev).fResourceDict.G = Len(dev.fGraphicStateResources)
        /\ getResourceDict(dev).fResourceDict.X = Len(dev.fXObjectResources)
        /\ getResourceDict(dev).fResourceDict.F = Len(dev.fFontResources)
        /\ getResourceDict(dev).fResourceDict.P = Len(dev.fShaderResources)

====
